---- MODULE Spec2Model ----
(***************************************************************************)
(* Embedding storage and search engine of convergence_ml:                  *)
(*   db/vector_store.py          InMemoryVectorStore                       *)
(*   services/embedding_service.py  EmbeddingService                       *)
(*   services/highlight_service.py  HighlightService                       *)
(*   models/sentence_transformer.py EmbeddingGenerator                     *)
(* Every call is one atomic action that runs the whole handler and leaves  *)
(* its arguments and its outcome in `last`; Return hands the outcome to    *)
(* the caller and makes the store ready for the next call.  Calls that run *)
(* as concurrent coroutines are held in `tasks`, one step per stretch of   *)
(* code between two awaits.                                                *)
(***************************************************************************)
EXTENDS Integers, Sequences, FiniteSets, TLC

VARIABLES embeddings,  \* InMemoryVectorStore._embeddings: insertion-ordered dict,
                       \* a sequence of <<document_id, vector>> with distinct ids
          metadata,    \* InMemoryVectorStore._metadata: document_id -> dict
          last,        \* the call in progress: its arguments and outcome
          tasks        \* the coroutines in flight: task -> its position,
                       \* arguments, locals and outcome

vars == <<embeddings, metadata, last, tasks>>

---------------------------------------------------------------------------
(* Bounds of the model *)

MaxTopK == 2      \* top_k ranges over 0..MaxTopK
Scale == 100      \* fixed-point resolution of a score: Scale stands for 1.0

(* Inputs *)

DocIds == {"d1", "d2"}

\* Python's None, as a metadata value or a filter value.
None == "None"

\* Vectors handed to the store: two opposite directions of the plane, a
\* diagonal, the zero vector, and one vector of another length.
Vectors == {<<1, 0>>, <<-1, 0>>, <<1, 1>>, <<0, 0>>, <<1, 0, 0>>}

QueryVectors == {<<1, 0>>, <<1, 1>>, <<0, 0>>}

EmptyDict == [k \in {} |-> None]

\* Metadata dicts handed to the store.
MetaDicts == { EmptyDict,
               [k \in {"document_type"} |-> None],
               [k \in {"document_type", "lang"} |->
                    IF k = "document_type" THEN "note" ELSE "en"],
               [k \in {"document_type", "lang"} |->
                    IF k = "document_type" THEN "email" ELSE "en"] }

\* An optional argument: None or a value.
NoArg == [some |-> FALSE]
Some(x) == [some |-> TRUE, val |-> x]
Optional(S) == {NoArg} \cup {Some(x) : x \in S}

FilterDicts == { EmptyDict,
                 [k \in {"document_type"} |-> "note"],
                 [k \in {"document_type"} |-> None],
                 [k \in {"document_type", "lang"} |->
                      IF k = "document_type" THEN "note" ELSE "en"] }

---------------------------------------------------------------------------
(* Python values *)

\* dict.get(k): the value, or None when the key is missing.
Get(d, k) == IF k \in DOMAIN d THEN d[k] ELSE None

\* `x or {}` for an optional dict: None and the empty dict both give {}.
OrEmpty(opt) == IF opt.some THEN opt.val ELSE EmptyDict

\* Truthiness of an optional dict: None and {} are falsy.
Truthy(opt) == opt.some /\ DOMAIN opt.val # {}

\* An insertion-ordered dict as a sequence of <<key, value>>.
DictKeys(d) == {d[i][1] : i \in 1..Len(d)}
DictHas(d, k) == k \in DictKeys(d)
DictGet(d, k) == d[CHOOSE i \in 1..Len(d) : d[i][1] = k][2]
\* A write that appends a pair without looking for the key.
DictSetAppend(d, k, v) == Append(d, <<k, v>>)

\* d[k] = v: an existing key keeps its place, a new key goes last.
DictSet(d, k, v) ==
    IF DictHas(d, k)
    THEN [i \in 1..Len(d) |-> IF d[i][1] = k THEN <<k, v>> ELSE d[i]]
    ELSE Append(d, <<k, v>>)
\* A delete that removes nothing.
DictDelKeep(d, k) == d

DictDel(d, k) == SelectSeq(d, LAMBDA e : e[1] # k)

\* m[k] = v and m.pop(k, None) on a plain dict.
MapSet(m, k, v) == [x \in DOMAIN m \cup {k} |-> IF x = k THEN v ELSE m[x]]
MapPop(m, k) == [x \in DOMAIN m \ {k} |-> m[x]]

---------------------------------------------------------------------------
(* Numbers *)

\* np.float32 holds every integer of magnitude up to 2^24 exactly.
F32Exact == 16777216

Abs(x) == IF x < 0 THEN -x ELSE x

\* The cast to float32 of an integer-valued double below 2^25: exact up to
\* 2^24, beyond it rounded to the nearest even number, ties to the even
\* mantissa.
ToFloat32(x) ==
    IF Abs(x) <= F32Exact THEN x
    ELSE LET a == Abs(x)
             lo == (a \div 2) * 2
             r == IF a = lo THEN lo
                  ELSE IF (lo \div 2) % 2 = 0 THEN lo ELSE lo + 2
         IN IF x < 0 THEN -r ELSE r

\* np.array(embedding, dtype=np.float32)
ToFloat32Array(v) == [i \in 1..Len(v) |-> ToFloat32(v[i])]

\* ndarray.tolist(): float32 to Python float is exact.
ToList(a) == a

\* The float NaN: the result of 0/0; every comparison with it is false.
NaN == -999999

\* The integer square root, by bisection of lo..hi.
RECURSIVE ISqrtIn(_, _, _)
ISqrtIn(n, lo, hi) ==
    IF lo >= hi THEN lo
    ELSE LET mid == (lo + hi + 1) \div 2
         IN IF mid * mid <= n THEN ISqrtIn(n, mid, hi)
            ELSE ISqrtIn(n, lo, mid - 1)

RECURSIVE SumSq(_, _)
SumSq(v, i) == IF i = 0 THEN 0 ELSE v[i] * v[i] + SumSq(v, i - 1)

RECURSIVE SumAbs(_, _)
SumAbs(v, i) == IF i = 0 THEN 0 ELSE Abs(v[i]) + SumAbs(v, i - 1)

\* np.linalg.norm(v), in units of 1/Scale: the root is looked for up to the
\* sum of the magnitudes, which the norm never exceeds.
Norm(v) == ISqrtIn(SumSq(v, Len(v)) * Scale * Scale, 0, SumAbs(v, Len(v)) * Scale)

HasNaN(v) == \E i \in 1..Len(v) : v[i] = NaN

\* v / np.linalg.norm(v), components in units of 1/Scale; the zero vector
\* divides 0 by 0 and every component is NaN (numpy warns, it does not
\* raise), and so does a vector that holds a NaN, whose norm is NaN.
Normalize(v) ==
    IF HasNaN(v) THEN [i \in 1..Len(v) |-> NaN]
    ELSE LET n == Norm(v) IN
         [i \in 1..Len(v) |-> IF n = 0 THEN NaN ELSE (v[i] * Scale * Scale) \div n]

RECURSIVE DotSum(_, _, _)
DotSum(a, b, i) == IF i = 0 THEN 0 ELSE a[i] * b[i] + DotSum(a, b, i - 1)

\* float(np.dot(a, b)) of two normalized vectors of one length, in units of
\* 1/Scale; NaN as soon as a component is NaN.
Dot(a, b) ==
    IF \E i \in 1..Len(a) : a[i] = NaN \/ b[i] = NaN THEN NaN
    ELSE DotSum(a, b, Len(a)) \div Scale

\* A strict comparison in place of >=.
FloatGt(x, y) == x # NaN /\ y # NaN /\ x > y

\* score >= threshold on floats: false when either side is NaN.
FloatGeq(x, y) == x # NaN /\ y # NaN /\ x >= y

Thresholds == {-Scale, 0, Scale}

---------------------------------------------------------------------------
(* InMemoryVectorStore *)

\* self._metadata.get(doc_id, {})
MetaOf(metas, doc_id) == IF doc_id \in DOMAIN metas THEN metas[doc_id] ELSE EmptyDict

\* all(doc_meta.get(k) == v for k, v in filter_metadata.items())
MatchesFilter(doc_meta, filter) ==
    \A k \in DOMAIN filter : Get(doc_meta, k) = filter[k]

SearchResult(doc_id, score, meta) ==
    [document_id |-> doc_id, score |-> score, metadata |-> meta]

\* The loop of search over self._embeddings.items(), from entry i on.
\* np.dot raises ValueError on vectors of different lengths; the loop then
\* ends at once and search raises.
RECURSIVE SearchLoop(_, _, _, _, _, _, _)
SearchLoop(embs, metas, query_norm, threshold, filter_metadata, i, results) ==
    IF i > Len(embs) THEN [raised |-> FALSE, results |-> results]
    ELSE
      LET doc_id == embs[i][1]
          embedding == embs[i][2]
      IN IF Truthy(filter_metadata)
            /\ ~MatchesFilter(MetaOf(metas, doc_id), filter_metadata.val)
         THEN SearchLoop(embs, metas, query_norm, threshold, filter_metadata,
                         i + 1, results)
         ELSE IF Len(embedding) # Len(query_norm)
         THEN [raised |-> TRUE, results |-> <<>>]
         ELSE
           LET score == Dot(query_norm, Normalize(embedding))
           IN SearchLoop(embs, metas, query_norm, threshold, filter_metadata,
                         i + 1,
                         IF FloatGeq(score, threshold)
                         THEN Append(results,
                                     SearchResult(doc_id, score, MetaOf(metas, doc_id)))
                         ELSE results)

\* The results left in the order of the loop.
SortDescSkipped(s) == s

\* results.sort(key=lambda x: x.score, reverse=True): a stable sort, equal
\* scores keep their order.
RECURSIVE SortDesc(_)
SortDesc(s) ==
    IF s = <<>> THEN <<>>
    ELSE LET i == CHOOSE j \in 1..Len(s) :
                    /\ \A k \in 1..Len(s) : s[j].score >= s[k].score
                    /\ \A k \in 1..(j - 1) : s[k].score < s[j].score
         IN <<s[i]>> \o SortDesc(SubSeq(s, 1, i - 1) \o SubSeq(s, i + 1, Len(s)))

\* s[:n]
SliceTo(s, n) ==
    IF n >= 0 THEN SubSeq(s, 1, IF n < Len(s) THEN n ELSE Len(s))
    ELSE SubSeq(s, 1, IF Len(s) + n > 0 THEN Len(s) + n ELSE 0)

Search(embs, metas, query_embedding, top_k, threshold, filter_metadata) ==
    IF Len(embs) = 0 THEN [raised |-> FALSE, results |-> <<>>]
    ELSE
      LET query == ToFloat32Array(query_embedding)
          query_norm == Normalize(query)
          found == SearchLoop(embs, metas, query_norm, threshold,
                              filter_metadata, 1, <<>>)
      IN IF found.raised THEN found
         ELSE [raised |-> FALSE,
               results |-> SliceTo(SortDesc(found.results), top_k)]

GetEmbedding(embs, metas, document_id) ==
    IF ~DictHas(embs, document_id) THEN [found |-> FALSE]
    ELSE [found |-> TRUE,
          embedding |-> ToList(DictGet(embs, document_id)),
          metadata |-> MetaOf(metas, document_id)]

Count(embs) == Len(embs)

Idle == [op |-> "idle"]

\* add_embedding stores whatever vector it is given: no statement of it
\* looks at the length of the vector, and no statement of it raises.
add_embedding(document_id, embedding, md) ==
    /\ last.op = "idle"
    /\ embeddings' = DictSet(embeddings, document_id, ToFloat32Array(embedding))
    /\ metadata' = MapSet(metadata, document_id, OrEmpty(md))
    /\ last' = [op |-> "add_embedding", document_id |-> document_id,
                embedding |-> embedding, metadata |-> md,
                ret |-> [raised |-> FALSE],
                pre_embeddings |-> embeddings, pre_metadata |-> metadata]
    /\ UNCHANGED tasks

\* A search that drops from the store every record it returns.
search_and_evict(query_embedding, top_k, threshold, filter_metadata) ==
    LET found == Search(embeddings, metadata, query_embedding, top_k,
                        threshold, filter_metadata)
        ids == {found.results[i].document_id : i \in 1..Len(found.results)}
    IN
    /\ last.op = "idle"
    /\ last' = [op |-> "search", query_embedding |-> query_embedding,
                top_k |-> top_k, threshold |-> threshold,
                filter_metadata |-> filter_metadata,
                ret |-> found,
                pre_embeddings |-> embeddings, pre_metadata |-> metadata]
    /\ embeddings' = SelectSeq(embeddings, LAMBDA e : e[1] \notin ids)
    /\ metadata' = [d \in DOMAIN metadata \ ids |-> metadata[d]]
    /\ UNCHANGED tasks

search(query_embedding, top_k, threshold, filter_metadata) ==
    /\ last.op = "idle"
    /\ last' = [op |-> "search", query_embedding |-> query_embedding,
                top_k |-> top_k, threshold |-> threshold,
                filter_metadata |-> filter_metadata,
                ret |-> Search(embeddings, metadata, query_embedding, top_k,
                               threshold, filter_metadata),
                pre_embeddings |-> embeddings, pre_metadata |-> metadata]
    /\ UNCHANGED <<embeddings, metadata>>
    /\ UNCHANGED tasks

\* The caller that holds the outcome of a search makes the same search once
\* more, with the same arguments, before anything else touches the store.
search_again ==
    /\ last.op = "search"
    /\ last' = [op |-> "search_again",
                query_embedding |-> last.query_embedding,
                top_k |-> last.top_k, threshold |-> last.threshold,
                filter_metadata |-> last.filter_metadata,
                first |-> last.ret,
                ret |-> Search(embeddings, metadata, last.query_embedding,
                               last.top_k, last.threshold,
                               last.filter_metadata),
                pre_embeddings |-> last.pre_embeddings,
                pre_metadata |-> last.pre_metadata]
    /\ UNCHANGED <<embeddings, metadata>>
    /\ UNCHANGED tasks

get_embedding(document_id) ==
    /\ last.op = "idle"
    /\ last' = [op |-> "get_embedding", document_id |-> document_id,
                ret |-> GetEmbedding(embeddings, metadata, document_id)]
    /\ UNCHANGED <<embeddings, metadata>>
    /\ UNCHANGED tasks

delete_embedding(document_id) ==
    /\ last.op = "idle"
    /\ IF DictHas(embeddings, document_id)
       THEN /\ embeddings' = DictDel(embeddings, document_id)
            /\ metadata' = MapPop(metadata, document_id)
       ELSE UNCHANGED <<embeddings, metadata>>
    /\ last' = [op |-> "delete_embedding", document_id |-> document_id,
                ret |-> DictHas(embeddings, document_id),
                pre_embeddings |-> embeddings, pre_metadata |-> metadata]
    /\ UNCHANGED tasks

count ==
    /\ last.op = "idle"
    /\ last' = [op |-> "count", ret |-> Count(embeddings)]
    /\ UNCHANGED <<embeddings, metadata>>
    /\ UNCHANGED tasks

clear ==
    /\ last.op = "idle"
    /\ embeddings' = <<>>
    /\ metadata' = EmptyDict
    /\ last' = [op |-> "clear"]
    /\ UNCHANGED tasks

\* The call returns to its caller.
Return ==
    /\ last.op # "idle"
    /\ last' = Idle
    /\ UNCHANGED <<embeddings, metadata>>
    /\ UNCHANGED tasks

\* The coroutines an event loop runs side by side, none of them started.
TaskIds == {"t1", "t2"}
NoTasks == [t \in TaskIds |-> [pc |-> "idle"]]

Init ==
    /\ embeddings = <<>>
    /\ metadata = EmptyDict
    /\ last = Idle
    /\ tasks = NoTasks

AddEmbeddingCall ==
    \E id \in DocIds, e \in Vectors, md \in Optional(MetaDicts) :
        add_embedding(id, e, md)

SearchCall ==
    \E q \in QueryVectors, k \in 0..MaxTopK, t \in Thresholds,
       f \in Optional(FilterDicts) : search(q, k, t, f)

GetEmbeddingCall == \E id \in DocIds : get_embedding(id)

DeleteEmbeddingCall == \E id \in DocIds : delete_embedding(id)

Next ==
    \/ AddEmbeddingCall
    \/ SearchCall
    \/ GetEmbeddingCall
    \/ DeleteEmbeddingCall
    \/ count
    \/ clear
    \/ Return

Spec == Init /\ [][Next]_vars

\* The store with a caller that repeats its searches.
NextRepeat ==
    \/ AddEmbeddingCall
    \/ SearchCall
    \/ search_again
    \/ Return

SpecRepeat == Init /\ [][NextRepeat]_vars

---------------------------------------------------------------------------
(* EmbeddingService over a VectorStore and an EmbeddingGenerator *)

MaxBatch == 2     \* a batch holds at most MaxBatch documents

Contents == {"c1", "c2"}

\* hashlib.sha256(content.encode()).hexdigest(): one digest per content,
\* different contents have different digests.
ComputeHash(content) ==
    CASE content = "c1" -> "sha256(c1)"
      [] content = "c2" -> "sha256(c2)"

\* The model's unit vector for one text (SentenceTransformer.encode with
\* normalize_embeddings=True): the same text always gives the same vector.
Encode(text) ==
    CASE text = "c1" -> <<1, 0>>
      [] text = "c2" -> <<-1, 0>>
      [] text = "" -> <<0, 1>>

\* EmbeddingGenerator.embed(texts): one row per text, in order.
Embed(texts) == [i \in 1..Len(texts) |-> Encode(texts[i])]

\* Metadata a caller passes with a document: none, or a dict that itself
\* carries a content_hash key.
ServiceMetas == { NoArg,
                  Some([k \in {"content_hash"} |-> ComputeHash("c1")]) }

\* {"content_hash": content_hash, **(metadata or {})}: keys of the caller's
\* metadata win over the computed hash.
FullMetadata(content_hash, md) ==
    LET m == OrEmpty(md) IN
    [k \in {"content_hash"} \cup DOMAIN m |->
        IF k \in DOMAIN m THEN m[k] ELSE content_hash]

EmbeddingResult(document_id, embedding, content_hash, md) ==
    [document_id |-> document_id, embedding |-> embedding,
     content_hash |-> content_hash, dimension |-> Len(embedding),
     metadata |-> md]

\* A comparison that never finds the stored hash.
HashNeverEqual(existing_meta, content_hash) == FALSE

\* existing_meta.get("content_hash") == content_hash
HashEqual(existing_meta, content_hash) ==
    Get(existing_meta, "content_hash") = content_hash

\* _is_unchanged(existing, content_hash)
IsUnchanged(existing, content_hash) ==
    HashEqual(existing.metadata, content_hash)

\* The body of embed_document; gen_fails and store_fails say whether the
\* generator call and the store's add_embedding raise when they are reached.
\* An exception of either leaves embed_document at once.  history is what
\* the caller did right before the call.
EmbedDocument(document_id, content, md, skip_if_unchanged, gen_fails, store_fails, history) ==
    LET content_hash == ComputeHash(content)
        existing == GetEmbedding(embeddings, metadata, document_id)
        skip == /\ skip_if_unchanged
                /\ existing.found
                /\ HashEqual(existing.metadata, content_hash)
        embedding == ToList(Embed(<<content>>)[1])
        full_metadata == FullMetadata(content_hash, md)
        call == [op |-> "embed_document", document_id |-> document_id,
                 content |-> content, metadata |-> md,
                 skip_if_unchanged |-> skip_if_unchanged,
                 pre_embeddings |-> embeddings, pre_metadata |-> metadata]
                    @@ history
    IN
    /\ IF skip
       THEN /\ last' = call @@
                       [gen_calls |-> <<>>,
                        ret |-> [raised |-> FALSE,
                                 result |-> EmbeddingResult(document_id,
                                     existing.embedding, content_hash,
                                     existing.metadata)]]
            /\ UNCHANGED <<embeddings, metadata>>
       ELSE IF gen_fails \/ store_fails
       THEN /\ last' = call @@ [gen_calls |-> << <<content>> >>,
                                ret |-> [raised |-> TRUE]]
            /\ UNCHANGED <<embeddings, metadata>>
       ELSE /\ embeddings' = DictSet(embeddings, document_id,
                                     ToFloat32Array(embedding))
            /\ metadata' = MapSet(metadata, document_id,
                                  OrEmpty(Some(full_metadata)))
            /\ last' = call @@ [gen_calls |-> << <<content>> >>,
                                ret |-> [raised |-> FALSE,
                                         result |-> EmbeddingResult(document_id,
                                             embedding, content_hash,
                                             full_metadata)]]
    /\ UNCHANGED tasks

embed_document(document_id, content, md, skip_if_unchanged, gen_fails, store_fails) ==
    /\ last.op = "idle"
    /\ EmbedDocument(document_id, content, md, skip_if_unchanged, gen_fails,
                     store_fails, [after_delete |-> FALSE])

\* The caller that has deleted an id embeds a document under that id next.
embed_document_after_delete(content, md, skip_if_unchanged, gen_fails, store_fails) ==
    /\ last.op = "delete_embedding"
    /\ EmbedDocument(last.document_id, content, md, skip_if_unchanged,
                     gen_fails, store_fails,
                     [after_delete |-> TRUE,
                      before_delete_embeddings |-> last.pre_embeddings,
                      before_delete_metadata |-> last.pre_metadata])

\* _prepare_batch_documents, from document i on.  acc holds to_embed,
\* content_hashes and results as built so far.
RECURSIVE PrepareBatchDocuments(_, _, _, _)
PrepareBatchDocuments(documents, skip_if_unchanged, i, acc) ==
    IF i > Len(documents) THEN acc
    ELSE
      LET doc_id == documents[i][1]
          content == documents[i][2]
          md == documents[i][3]
          content_hash == ComputeHash(content)
          hashes == MapSet(acc.content_hashes, doc_id, content_hash)
          existing == GetEmbedding(embeddings, metadata, doc_id)
      IN IF skip_if_unchanged /\ existing.found
            /\ IsUnchanged(existing, content_hash)
         THEN PrepareBatchDocuments(documents, skip_if_unchanged, i + 1,
                [acc EXCEPT !.content_hashes = hashes,
                            !.results = Append(@,
                                EmbeddingResult(doc_id, existing.embedding,
                                    content_hash, existing.metadata))])
         ELSE PrepareBatchDocuments(documents, skip_if_unchanged, i + 1,
                [acc EXCEPT !.content_hashes = hashes,
                            !.to_embed = Append(@, <<doc_id, content, md>>)])

\* The first row, whatever the index.
FirstRow(rows, i) == rows[1]

\* embeddings[i]
RowAt(rows, i) == rows[i]

\* A store loop that gives up at the first add_embedding that raises.
RECURSIVE StoreLoopStopsAtFailure(_, _, _, _, _, _)
StoreLoopStopsAtFailure(to_embed, content_hashes, rows, fail_at, i, acc) ==
    IF i > Len(to_embed) THEN acc
    ELSE
      LET doc_id == to_embed[i][1]
          md == to_embed[i][3]
          content_hash == content_hashes[doc_id]
          embedding == ToList(rows[i])
          full_metadata == FullMetadata(content_hash, md)
      IN IF i \in fail_at
         THEN [acc EXCEPT !.errors = Append(@,
                  [document_id |-> doc_id, error |-> "add_embedding"])]
         ELSE StoreLoopStopsAtFailure(to_embed, content_hashes, rows, fail_at,
                i + 1,
                [acc EXCEPT
                   !.embeddings = DictSet(@, doc_id, ToFloat32Array(embedding)),
                   !.metadata = MapSet(@, doc_id, OrEmpty(Some(full_metadata))),
                   !.writes = Append(@, [place |-> i, document_id |-> doc_id,
                                         embedding |-> embedding,
                                         metadata |-> full_metadata]),
                   !.results = Append(@, EmbeddingResult(doc_id, embedding,
                                         content_hash, full_metadata))])

\* The store loop of _process_batch_embeddings, from item i of to_embed on.
\* fail_at holds the places of to_embed whose add_embedding raises; the
\* exception of _store_single_embedding is caught per item.  acc holds the
\* store, results, errors and the writes made so far.
RECURSIVE StoreLoop(_, _, _, _, _, _)
StoreLoop(to_embed, content_hashes, rows, fail_at, i, acc) ==
    IF i > Len(to_embed) THEN acc
    ELSE
      LET doc_id == to_embed[i][1]
          md == to_embed[i][3]
          content_hash == content_hashes[doc_id]
          embedding == ToList(RowAt(rows, i))
          full_metadata == FullMetadata(content_hash, md)
      IN IF i \in fail_at
         THEN StoreLoop(to_embed, content_hashes, rows, fail_at, i + 1,
                [acc EXCEPT !.errors = Append(@,
                     [document_id |-> doc_id, error |-> "add_embedding"])])
         ELSE StoreLoop(to_embed, content_hashes, rows, fail_at, i + 1,
                [acc EXCEPT
                   !.embeddings = DictSet(@, doc_id, ToFloat32Array(embedding)),
                   !.metadata = MapSet(@, doc_id, OrEmpty(Some(full_metadata))),
                   !.writes = Append(@, [place |-> i, document_id |-> doc_id,
                                         embedding |-> embedding,
                                         metadata |-> full_metadata]),
                   !.results = Append(@, EmbeddingResult(doc_id, embedding,
                                         content_hash, full_metadata))])

\* _process_batch_embeddings: one generator call over the texts of to_embed,
\* then the store loop; an exception of the generator call is recorded as
\* one batch_error.
ProcessBatchEmbeddings(to_embed, content_hashes, gen_fails, fail_at, acc) ==
    LET texts == [i \in 1..Len(to_embed) |-> to_embed[i][2]]
    IN IF gen_fails
       THEN [acc EXCEPT !.gen_calls = Append(@, texts),
                        !.errors = Append(@, [batch_error |-> "embed"])]
       ELSE StoreLoop(to_embed, content_hashes, Embed(texts), fail_at, 1,
                      [acc EXCEPT !.gen_calls = Append(@, texts)])

\* A count that takes every result for a successful embedding.
SuccessfulAllResults(results, skipped) == Len(results)

\* successful = len(results) - skipped
Successful(results, skipped) == Len(results) - skipped

\* failed = len(errors)
Failed(errors) == Len(errors)

\* A test that takes every list, empty or not, for work to do.
HasToEmbedAlways(to_embed) == TRUE

\* if to_embed:
HasToEmbed(to_embed) == to_embed # <<>>

\* The body of embed_documents_batch; gen_fails says whether the bulk
\* generator call raises, fail_at which add_embedding calls raise.  history
\* is what the caller did right before the call.
EmbedDocumentsBatch(documents, skip_if_unchanged, gen_fails, fail_at, history) ==
    LET prepared == PrepareBatchDocuments(documents, skip_if_unchanged, 1,
                        [to_embed |-> <<>>, content_hashes |-> EmptyDict,
                         results |-> <<>>])
        to_embed == prepared.to_embed
        skipped == Len(prepared.results)
        start == [embeddings |-> embeddings, metadata |-> metadata,
                  results |-> prepared.results, errors |-> <<>>,
                  gen_calls |-> <<>>, writes |-> <<>>]
        done == IF HasToEmbed(to_embed)
                THEN ProcessBatchEmbeddings(to_embed, prepared.content_hashes,
                                            gen_fails, fail_at, start)
                ELSE start
    IN
    /\ embeddings' = done.embeddings
    /\ metadata' = done.metadata
    /\ last' = history @@
               [op |-> "embed_documents_batch", documents |-> documents,
                skip_if_unchanged |-> skip_if_unchanged,
                gen_failed |-> (to_embed # <<>> /\ gen_fails),
                store_failed |-> IF to_embed # <<>> /\ ~gen_fails
                                 THEN fail_at \cap (1..Len(to_embed)) ELSE {},
                gen_calls |-> done.gen_calls, writes |-> done.writes,
                ret |-> [total |-> Len(documents),
                         successful |-> Successful(done.results, skipped),
                         failed |-> Failed(done.errors),
                         skipped |-> skipped,
                         results |-> done.results, errors |-> done.errors],
                pre_embeddings |-> embeddings, pre_metadata |-> metadata]
    /\ UNCHANGED tasks

embed_documents_batch(documents, skip_if_unchanged, gen_fails, fail_at) ==
    /\ last.op = "idle"
    /\ EmbedDocumentsBatch(documents, skip_if_unchanged, gen_fails, fail_at,
                           [retry |-> FALSE])

\* The caller of a batch that came back with per-item storage errors
\* submits the same documents once more, with the same skip_if_unchanged.
embed_documents_batch_retry(gen_fails, fail_at) ==
    /\ last.op = "embed_documents_batch"
    /\ ~last.retry
    /\ last.store_failed # {}
    /\ EmbedDocumentsBatch(last.documents, last.skip_if_unchanged, gen_fails,
                           fail_at, [retry |-> TRUE, first |-> last])

\* The (document_id, content, metadata) tuples of a batch: every id with
\* every content and no metadata, and one document with metadata.
Documents ==
    (DocIds \X Contents \X {NoArg})
        \cup {<<"d1", "c2", Some([k \in {"content_hash"} |-> ComputeHash("c1")])>>}

RECURSIVE SeqsUpTo(_, _)
SeqsUpTo(S, n) ==
    IF n = 0 THEN {<<>>}
    ELSE LET shorter == SeqsUpTo(S, n - 1)
         IN shorter \cup {Append(q, x) : q \in shorter, x \in S}

EmbedDocumentCall ==
    \E id \in DocIds, c \in Contents, md \in ServiceMetas,
       skip \in BOOLEAN, gen_fails \in BOOLEAN, store_fails \in BOOLEAN :
        embed_document(id, c, md, skip, gen_fails, store_fails)

\* What the collaborators do during one batch: the bulk generator call
\* raises, or it returns and add_embedding raises at the places of fail_at.
BatchFaults ==
    {[gen_fails |-> TRUE, fail_at |-> {}]}
        \cup {[gen_fails |-> FALSE, fail_at |-> F] : F \in SUBSET (1..MaxBatch)}

EmbedDocumentsBatchCall ==
    \E documents \in SeqsUpTo(Documents, MaxBatch), skip \in BOOLEAN,
       faults \in BatchFaults :
        embed_documents_batch(documents, skip, faults.gen_fails, faults.fail_at)

EmbedDocumentAfterDeleteCall ==
    \E c \in Contents, md \in ServiceMetas,
       skip \in BOOLEAN, gen_fails \in BOOLEAN, store_fails \in BOOLEAN :
        embed_document_after_delete(c, md, skip, gen_fails, store_fails)

\* During the retry the store works; the generator may still fail.
EmbedDocumentsBatchRetryCall ==
    \E gen_fails \in BOOLEAN : embed_documents_batch_retry(gen_fails, {})

NextService ==
    \/ EmbedDocumentCall
    \/ EmbedDocumentsBatchCall
    \/ DeleteEmbeddingCall
    \/ Return

SpecService == Init /\ [][NextService]_vars

\* The service with a caller that embeds under an id it has just deleted.
NextAfterDelete ==
    \/ EmbedDocumentCall
    \/ DeleteEmbeddingCall
    \/ EmbedDocumentAfterDeleteCall
    \/ Return

SpecAfterDelete == Init /\ [][NextAfterDelete]_vars

\* The service with a caller that resubmits the batches that came back with
\* storage errors.
NextRetry ==
    \/ EmbedDocumentsBatchCall
    \/ EmbedDocumentsBatchRetryCall
    \/ Return

SpecRetry == Init /\ [][NextRetry]_vars

---------------------------------------------------------------------------
(* Properties of InMemoryVectorStore, checked under Spec *)

SearchReturned == last.op = "search" /\ ~last.ret.raised

\* Place of a document in the insertion order of the store.
PlaceOf(embs, doc_id) == CHOOSE i \in 1..Len(embs) : embs[i][1] = doc_id

\* The score search gives a stored vector for the query of the last search.
ScoreOf(doc_id) ==
    Dot(Normalize(ToFloat32Array(last.query_embedding)),
        Normalize(DictGet(embeddings, doc_id)))

\* The stored documents the last search keeps: those that pass the metadata
\* filter and whose score is a number not below the threshold.
Eligible ==
    { d \in DictKeys(embeddings) :
        /\ Truthy(last.filter_metadata)
              => MatchesFilter(MetaOf(metadata, d), last.filter_metadata.val)
        /\ ScoreOf(d) # NaN
        /\ ScoreOf(d) >= last.threshold }

Returned == { last.ret.results[i].document_id : i \in 1..Len(last.ret.results) }

\* C2: a search with top_k = k >= 1 that returns gives at most k results,
\* and their scores never increase along the list.
C2_AtMostKSorted ==
    (SearchReturned /\ last.top_k >= 1) =>
        LET r == last.ret.results IN
        /\ Len(r) <= last.top_k
        /\ \A i \in 1..Len(r) : \A j \in 1..Len(r) :
              i < j => r[i].score >= r[j].score

\* A search cut to one result returns the document stored second, ahead of
\* the one stored first that also qualifies.
C2_Witness ==
    /\ SearchReturned
    /\ last.top_k = 1
    /\ Len(embeddings) = 2
    /\ Cardinality(Eligible) = 2
    /\ Len(last.ret.results) = 1
    /\ last.ret.results[1].document_id = embeddings[2][1]
    /\ ScoreOf(embeddings[2][1]) > ScoreOf(embeddings[1][1])

\* C3: the threshold is an inclusive lower bound and top_k is applied after
\* filtering and thresholding: only eligible documents are returned, each
\* once and with its score; the result holds min(top_k, number of eligible
\* documents) of them, and no eligible document left out scores strictly
\* higher than a returned one.
C3_ThresholdThenTopK ==
    SearchReturned =>
        LET r == last.ret.results
            n == Cardinality(Eligible)
        IN /\ Returned \subseteq Eligible
           /\ \A i \in 1..Len(r) : /\ r[i].score = ScoreOf(r[i].document_id)
                                   /\ r[i].score >= last.threshold
           /\ Cardinality(Returned) = Len(r)
           /\ Len(r) = (IF last.top_k < n THEN last.top_k ELSE n)
           /\ \A d \in Eligible \ Returned : \A e \in Returned :
                 ScoreOf(d) <= ScoreOf(e)

\* Two documents qualify, one of them with a score equal to the threshold,
\* and top_k = 1 keeps only the better one.
C3_Witness ==
    /\ SearchReturned
    /\ last.top_k = 1
    /\ Cardinality(Eligible) = 2
    /\ \E d \in Eligible \ Returned : ScoreOf(d) = last.threshold
    /\ \E e \in Returned : ScoreOf(e) > last.threshold

\* C4: with a metadata filter, every returned document holds every key of
\* the filter in its metadata, with an equal value; a document that lacks a
\* filtered key is not returned.
C4_FilterAndOfEqualities ==
    (SearchReturned /\ last.filter_metadata.some) =>
        \A d \in Returned : \A k \in DOMAIN last.filter_metadata.val :
            /\ k \in DOMAIN MetaOf(metadata, d)
            /\ MetaOf(metadata, d)[k] = last.filter_metadata.val[k]

AddReturned == last.op = "add_embedding"

\* C5: add_embedding on an id that is already stored leaves exactly one
\* record for the id, holding the new vector and the new metadata alone
\* (nothing of the old metadata), with count() as before the call; and the
\* record is visible to get_embedding, count and search as soon as the call
\* returns.
C5_Overwrite ==
    AddReturned =>
        LET id == last.document_id
            got == GetEmbedding(embeddings, metadata, id)
            was == DictHas(last.pre_embeddings, id)
        IN /\ Cardinality({i \in 1..Len(embeddings) : embeddings[i][1] = id}) = 1
           /\ got.found
           /\ got.embedding = last.embedding
           /\ got.metadata = (IF last.metadata.some THEN last.metadata.val
                              ELSE EmptyDict)
           /\ Count(embeddings) = Count(last.pre_embeddings) + (IF was THEN 0 ELSE 1)
           /\ (/\ \A i \in 1..Len(embeddings) : Len(embeddings[i][2]) = 2
               /\ last.embedding # <<0, 0>>)
              => \E i \in 1..Count(embeddings) :
                    LET r == Search(embeddings, metadata, last.embedding,
                                    Count(embeddings), -Scale, NoArg).results
                    IN i <= Len(r) /\ r[i].document_id = id

\* A second write to a stored id, with another vector and with metadata
\* that lack a key of the old metadata.
C5_Witness ==
    /\ AddReturned
    /\ DictHas(last.pre_embeddings, last.document_id)
    /\ DictGet(last.pre_embeddings, last.document_id) # last.embedding
    /\ last.metadata.some
    /\ \E k \in DOMAIN MetaOf(last.pre_metadata, last.document_id) :
          k \notin DOMAIN last.metadata.val
    /\ Len(embeddings) = 2

DeleteReturned == last.op = "delete_embedding"

\* C6: delete_embedding returns true exactly when the id was stored, and
\* then get_embedding reports it absent; on an id that is not stored it
\* returns false and the store is as before; in both cases every other
\* record is unchanged.
C6_Delete ==
    DeleteReturned =>
        LET id == last.document_id
            was == DictHas(last.pre_embeddings, id)
        IN /\ last.ret = was
           /\ ~GetEmbedding(embeddings, metadata, id).found
           /\ id \notin DOMAIN metadata
           /\ ~was => (embeddings = last.pre_embeddings
                        /\ metadata = last.pre_metadata)
           /\ \A o \in DocIds \ {id} :
                 GetEmbedding(embeddings, metadata, o)
                    = GetEmbedding(last.pre_embeddings, last.pre_metadata, o)

\* A stored id is deleted while another record stays.
C6_Witness ==
    /\ DeleteReturned
    /\ last.ret = TRUE
    /\ Len(last.pre_embeddings) = 2
    /\ Len(embeddings) = 1

---------------------------------------------------------------------------
(* Properties of EmbeddingService, checked under SpecService *)

\* The store holds a record for the id whose content_hash is the
\* fingerprint of the content.
StoredHashIs(embs, metas, document_id, content) ==
    /\ DictHas(embs, document_id)
    /\ "content_hash" \in DOMAIN MetaOf(metas, document_id)
    /\ MetaOf(metas, document_id)["content_hash"] = ComputeHash(content)

EmbedDocumentReturned == last.op = "embed_document"

EmbedDocumentUnchanged ==
    /\ EmbedDocumentReturned
    /\ last.skip_if_unchanged
    /\ StoredHashIs(last.pre_embeddings, last.pre_metadata,
                    last.document_id, last.content)

\* C1: embed_document (skipping unchanged content) on an id whose stored
\* content_hash is the fingerprint of the given content calls the generator
\* zero times, returns the stored vector, and leaves the stored vector and
\* metadata as they were, whatever metadata the call passes.
C1_SkipUnchanged ==
    EmbedDocumentUnchanged =>
        /\ last.gen_calls = <<>>
        /\ ~last.ret.raised
        /\ last.ret.result.embedding
              = DictGet(last.pre_embeddings, last.document_id)
        /\ embeddings = last.pre_embeddings
        /\ metadata = last.pre_metadata

\* An unchanged document is embedded again with metadata that a write
\* would have stored differently.
C1_Witness ==
    /\ EmbedDocumentUnchanged
    /\ last.metadata.some
    /\ FullMetadata(ComputeHash(last.content), last.metadata)
          # MetaOf(last.pre_metadata, last.document_id)

BatchReturned == last.op = "embed_documents_batch"

\* The places of the input whose document is not Skipped: the store had no
\* record of the id with the fingerprint of the content when the batch began
\* (or skip_if_unchanged is off).
RECURSIVE PendingPlacesFrom(_)
PendingPlacesFrom(i) ==
    IF i > Len(last.documents) THEN <<>>
    ELSE IF last.skip_if_unchanged
            /\ StoredHashIs(last.pre_embeddings, last.pre_metadata,
                            last.documents[i][1], last.documents[i][2])
         THEN PendingPlacesFrom(i + 1)
         ELSE <<i>> \o PendingPlacesFrom(i + 1)

\* The Pending documents of the last batch, in input order.
Pending ==
    LET places == PendingPlacesFrom(1)
    IN [j \in 1..Len(places) |-> last.documents[places[j]]]

NumSkipped == Len(last.documents) - Len(Pending)

\* The last write the batch made to an id, if any.
WritesTo(document_id) ==
    SelectSeq(last.writes, LAMBDA w : w.document_id = document_id)

\* C7: when add_embedding fails for a Pending item, the failure is recorded
\* in errors under the item's document_id and the batch goes on: total is
\* the number of inputs, failed >= 1, every other Pending item is written
\* and has its result, and every write made stays in the store.
C7_PartialFailure ==
    (BatchReturned /\ last.store_failed # {}) =>
        /\ last.ret.total = Len(last.documents)
        /\ last.ret.failed >= 1
        /\ Len(last.ret.errors) = Cardinality(last.store_failed)
        /\ \A j \in 1..Len(Pending) :
              IF j \in last.store_failed
              THEN \E n \in 1..Len(last.ret.errors) :
                      /\ "document_id" \in DOMAIN last.ret.errors[n]
                      /\ last.ret.errors[n].document_id = Pending[j][1]
              ELSE /\ \E n \in 1..Len(last.writes) :
                         /\ last.writes[n].place = j
                         /\ last.writes[n].document_id = Pending[j][1]
                   /\ \E n \in 1..Len(last.ret.results) :
                         /\ last.ret.results[n].document_id = Pending[j][1]
                         /\ last.ret.results[n].embedding = Encode(Pending[j][2])
        /\ \A id \in DocIds :
              LET ws == WritesTo(id)
              IN GetEmbedding(embeddings, metadata, id)
                    = IF ws = <<>>
                      THEN GetEmbedding(last.pre_embeddings, last.pre_metadata, id)
                      ELSE [found |-> TRUE,
                            embedding |-> ws[Len(ws)].embedding,
                            metadata |-> ws[Len(ws)].metadata]

\* The first of two Pending documents fails to store and the second, of
\* another id, is stored after it.
C7_Witness ==
    /\ BatchReturned
    /\ last.store_failed = {1}
    /\ Len(Pending) = 2
    /\ Pending[1][1] # Pending[2][1]
    /\ Len(last.writes) = 1
    /\ DictHas(embeddings, Pending[2][1])
    /\ ~DictHas(embeddings, Pending[1][1])

\* C8: a batch calls the generator exactly once, with the contents of the
\* Pending documents in input order, and not at all when nothing is
\* Pending; every write stores the vector of its place under the id of the
\* Pending document of that place, and without failures every place is
\* written, in order.
C8_OneBulkCall ==
    BatchReturned =>
        /\ Len(Pending) = 0 => last.gen_calls = <<>>
        /\ Len(Pending) > 0 =>
              last.gen_calls = << [j \in 1..Len(Pending) |-> Pending[j][2]] >>
        /\ \A n \in 1..Len(last.writes) :
              LET w == last.writes[n]
              IN /\ w.place \in 1..Len(Pending)
                 /\ w.document_id = Pending[w.place][1]
                 /\ w.embedding = Embed(last.gen_calls[1])[w.place]
                 /\ w.embedding = Encode(Pending[w.place][2])
        /\ (~last.gen_failed /\ last.store_failed = {}) =>
              /\ Len(last.writes) = Len(Pending)
              /\ \A n \in 1..Len(last.writes) : last.writes[n].place = n

\* Two Pending documents with different contents are embedded in one call
\* and both are written.
C8_Witness ==
    /\ BatchReturned
    /\ Len(Pending) = 2
    /\ Pending[1][2] # Pending[2][2]
    /\ Len(last.gen_calls) = 1
    /\ Len(last.writes) = 2

\* C9, with skipped documents counted as successful: total is the number of
\* inputs, skipped the number of unchanged documents, successful = skipped +
\* number of documents stored, failed the number of entries of errors.
C9_CountsWithSkippedInSuccessful ==
    BatchReturned =>
        /\ last.ret.total = Len(last.documents)
        /\ last.ret.skipped = NumSkipped
        /\ last.ret.successful = last.ret.skipped + Len(last.writes)
        /\ last.ret.failed = Len(last.ret.errors)

\* C9, with skipped documents counted apart: total is the number of inputs,
\* skipped the number of unchanged documents, successful the number of
\* documents stored, failed the number of entries of errors.
C9_Counts ==
    BatchReturned =>
        /\ last.ret.total = Len(last.documents)
        /\ last.ret.skipped = NumSkipped
        /\ last.ret.successful = Len(last.writes)
        /\ last.ret.failed = Len(last.ret.errors)

\* A batch with one Skipped document and one document stored.
C9_Witness ==
    /\ BatchReturned
    /\ last.ret.skipped = 1
    /\ Len(last.writes) = 1
    /\ last.ret.errors = <<>>

\* C10: when the bulk generator call fails, one batch-level error is
\* recorded, every Pending document is counted as failed, nothing is
\* written, and the Skipped documents still have their results.
C10_BulkCallFails ==
    (BatchReturned /\ last.gen_failed) =>
        /\ Len(last.ret.errors) = 1
        /\ "batch_error" \in DOMAIN last.ret.errors[1]
        /\ last.ret.failed = Len(Pending)
        /\ last.writes = <<>>
        /\ embeddings = last.pre_embeddings
        /\ metadata = last.pre_metadata
        /\ Len(last.ret.results) = NumSkipped

\* An embed_document call that found no record of the id with the
\* fingerprint of the content.
EmbedDocumentChanged ==
    /\ EmbedDocumentReturned
    /\ ~StoredHashIs(last.pre_embeddings, last.pre_metadata,
                     last.document_id, last.content)

\* C12: embed_document on an id with no stored record, or with a stored hash
\* that differs from the fingerprint of the content, calls the generator
\* exactly once with the content and, when it returns, get_embedding(id)
\* gives the generated vector and metadata whose content_hash is the
\* fingerprint of the content, whatever metadata the caller passed.
C12_EmbedChanged ==
    EmbedDocumentChanged =>
        /\ last.gen_calls = << <<last.content>> >>
        /\ ~last.ret.raised =>
              LET got == GetEmbedding(embeddings, metadata, last.document_id)
              IN /\ got.found
                 /\ got.embedding = ToFloat32Array(Encode(last.content))
                 /\ "content_hash" \in DOMAIN got.metadata
                 /\ got.metadata["content_hash"] = ComputeHash(last.content)

\* The places of the last batch that carry the id.
PlacesOf(document_id) ==
    {i \in 1..Len(last.documents) : last.documents[i][1] = document_id}

\* The content of the last occurrence of the id in the last batch.
LastContentOf(document_id) ==
    LET places == PlacesOf(document_id)
        n == CHOOSE i \in places : \A j \in places : j <= i
    IN last.documents[n][2]

\* The record of the id, if any, holds the vector of some content together
\* with the fingerprint of that content.
RecordOfOneContent(embs, metas, document_id) ==
    DictHas(embs, document_id) =>
        \E c \in Contents :
            /\ DictGet(embs, document_id) = ToFloat32Array(Encode(c))
            /\ StoredHashIs(embs, metas, document_id, c)

\* C13: when one batch carries the same document_id more than once, the last
\* occurrence wins: after the batch the stored record of the id holds the
\* vector generated from the content of the last occurrence and the
\* fingerprint of that content, whichever occurrences are changed or
\* unchanged.  Stated for batches whose documents pass no metadata, over a
\* store whose record of the id was consistent, with no failing collaborator.
C13_LastOccurrenceWins ==
    (/\ BatchReturned
     /\ ~last.gen_failed
     /\ last.store_failed = {}
     /\ \A i \in 1..Len(last.documents) : ~last.documents[i][3].some) =>
        \A id \in DocIds :
            (/\ Cardinality(PlacesOf(id)) >= 2
             /\ RecordOfOneContent(last.pre_embeddings, last.pre_metadata, id)) =>
                /\ DictHas(embeddings, id)
                /\ DictGet(embeddings, id)
                      = ToFloat32Array(Encode(LastContentOf(id)))
                /\ StoredHashIs(embeddings, metadata, id, LastContentOf(id))

---------------------------------------------------------------------------
(* Vector length and zero vectors, checked under Spec *)

\* Settings.embedding_dimension, the configured length of every vector (384
\* in the source, scaled down to the length of the model's vectors).
EmbeddingDimension == 2

\* C14: a write whose vector has another length than the configured
\* embedding dimension fails and leaves the store as it was.
C14_DimensionMismatchRejected ==
    (AddReturned /\ Len(last.embedding) # EmbeddingDimension) =>
        /\ last.ret.raised
        /\ embeddings = last.pre_embeddings
        /\ metadata = last.pre_metadata

IsZeroVector(v) == \A i \in 1..Len(v) : v[i] = 0

\* C15: search with a zero query vector reports an error instead of
\* returning results, whether the store is empty or not.
C15_ZeroQueryRejected ==
    (last.op = "search" /\ IsZeroVector(last.query_embedding)) =>
        last.ret.raised

---------------------------------------------------------------------------
(* EmbeddingGenerator.embed_with_context and HighlightService *)

\* A focal_weight is a number of tenths: WeightScale stands for 1.0.
WeightScale == 10

\* Truthiness of an optional string: None and "" are falsy.
TruthyStr(opt) == opt.some /\ opt.val # ""

\* (focal_weight * focal_embedding) + ((1 - focal_weight) * context_embedding),
\* in units of 1/WeightScale.
Combine(focal_embedding, context_embedding, focal_weight) ==
    [i \in 1..Len(focal_embedding) |->
        focal_weight * focal_embedding[i]
            + (WeightScale - focal_weight) * context_embedding[i]]

\* embed_with_context: the weighted sum of the two embeddings divided by its
\* norm, components in units of 1/Scale.  No statement looks at the norm
\* before the division: a zero sum comes back as a list of NaN.
EmbedWithContext(focal_text, context, focal_weight) ==
    LET focal_embedding == Embed(<<focal_text>>)[1]
        context_embedding == Embed(<<context>>)[1]
        combined == Combine(focal_embedding, context_embedding, focal_weight)
    IN ToList(Normalize(combined))

embed_with_context(focal_text, context, focal_weight) ==
    /\ last.op = "idle"
    /\ last' = [op |-> "embed_with_context", focal_text |-> focal_text,
                context |-> context, focal_weight |-> focal_weight,
                ret |-> [raised |-> FALSE,
                         value |-> EmbedWithContext(focal_text, context,
                                                    focal_weight)]]
    /\ UNCHANGED <<embeddings, metadata>>
    /\ UNCHANGED tasks

\* str(metadata.get(k, "")) or None
StrOrNone(meta, k) ==
    IF k \in DOMAIN meta /\ meta[k] # "" THEN meta[k] ELSE None

RelatedDocument(result) ==
    [document_id |-> result.document_id, score |-> result.score,
     title |-> StrOrNone(result.metadata, "title"),
     document_type |-> StrOrNone(result.metadata, "document_type"),
     snippet |-> StrOrNone(result.metadata, "snippet"),
     metadata |-> result.metadata]

\* set(exclude_document_ids or []), with source_document_id added when it
\* is truthy.
ExcludeSet(source_document_id, exclude_document_ids) ==
    (IF exclude_document_ids.some
     THEN {exclude_document_ids.val[i] :
               i \in 1..Len(exclude_document_ids.val)}
     ELSE {})
        \cup (IF TruthyStr(source_document_id)
              THEN {source_document_id.val} ELSE {})

\* A context counts as soon as it is not None.
ContextNotNone(context) == context.some

\* if context:
ContextGiven(context) == TruthyStr(context)

\* The number of candidates asked of the store without the excluded ones.
SearchTopKNoExtra(top_k, exclude_set) == top_k

\* top_k + len(exclude_set)
SearchTopK(top_k, exclude_set) == top_k + Cardinality(exclude_set)

\* A filter that is never built.
SearchFilterNone(filter_document_type) == NoArg

\* filter_metadata = {"document_type": filter_document_type} when the type
\* is truthy, else None.
SearchFilter(filter_document_type) ==
    IF TruthyStr(filter_document_type)
    THEN Some([k \in {"document_type"} |-> filter_document_type.val])
    ELSE NoArg

\* The loop over the search results, from result i on: excluded ids are
\* passed over, and the loop ends once top_k documents are collected (the
\* test comes after the append).
RECURSIVE CollectRelated(_, _, _, _, _)
CollectRelated(results, exclude_set, top_k, i, related_documents) ==
    IF i > Len(results) THEN related_documents
    ELSE IF results[i].document_id \in exclude_set
    THEN CollectRelated(results, exclude_set, top_k, i + 1, related_documents)
    ELSE LET more == Append(related_documents, RelatedDocument(results[i]))
         IN IF Len(more) >= top_k THEN more
            ELSE CollectRelated(results, exclude_set, top_k, i + 1, more)

\* find_related_content over a store; gives what it returns or raises, and
\* the calls it made to the generator and to the store's search.
FindRelatedContent(embs, metas, highlighted_text, context, source_document_id, top_k, threshold, focal_weight, filter_document_type, exclude_document_ids) ==
    LET exclude_set == ExcludeSet(source_document_id, exclude_document_ids)
        query_embedding ==
            IF ContextGiven(context)
            THEN EmbedWithContext(highlighted_text, context.val, focal_weight)
            ELSE ToList(Embed(<<highlighted_text>>)[1])
        gen_call ==
            IF ContextGiven(context)
            THEN [fn |-> "embed_with_context", focal_text |-> highlighted_text,
                  context |-> context.val, focal_weight |-> focal_weight]
            ELSE [fn |-> "embed", texts |-> <<highlighted_text>>]
        search_call ==
            [query_embedding |-> query_embedding,
             top_k |-> SearchTopK(top_k, exclude_set),
             threshold |-> threshold,
             filter_metadata |-> SearchFilter(filter_document_type)]
        found == Search(embs, metas, search_call.query_embedding,
                        search_call.top_k, search_call.threshold,
                        search_call.filter_metadata)
    IN [gen_calls |-> <<gen_call>>,
        search_calls |-> <<search_call>>,
        raised |-> found.raised,
        result |->
            IF found.raised THEN NoArg
            ELSE Some([highlighted_text |-> highlighted_text,
                       context |-> context,
                       related_documents |->
                           CollectRelated(found.results, exclude_set, top_k,
                                          1, <<>>),
                       query_embedding_dimension |-> Len(query_embedding),
                       total_searched |-> Count(embs)])]

find_related_content(highlighted_text, context, source_document_id, top_k, threshold, focal_weight, filter_document_type, exclude_document_ids) ==
    LET done == FindRelatedContent(embeddings, metadata, highlighted_text,
                    context, source_document_id, top_k, threshold,
                    focal_weight, filter_document_type, exclude_document_ids)
    IN
    /\ last.op = "idle"
    /\ last' = [op |-> "find_related_content",
                highlighted_text |-> highlighted_text, context |-> context,
                source_document_id |-> source_document_id, top_k |-> top_k,
                threshold |-> threshold, focal_weight |-> focal_weight,
                filter_document_type |-> filter_document_type,
                exclude_document_ids |-> exclude_document_ids,
                gen_calls |-> done.gen_calls,
                search_calls |-> done.search_calls,
                ret |-> [raised |-> done.raised, result |-> done.result]]
    /\ UNCHANGED <<embeddings, metadata>>
    /\ UNCHANGED tasks

\* focal_weight: float = 0.7, the default of find_related_content.
DefaultFocalWeight == 7

\* ["note", "email", "documentation", "task"]
DefaultDocumentTypes == <<"note", "email", "documentation", "task">>

\* The loop of find_related_by_document_type, from type i on: one
\* find_related_content per type, its documents kept under the type.
RECURSIVE ByTypeLoop(_, _, _, _, _, _, _, _)
ByTypeLoop(embs, metas, highlighted_text, context, top_k_per_type, threshold, types, acc) ==
    IF types = <<>> \/ acc.raised THEN acc
    ELSE
      LET doc_type == Head(types)
          result == FindRelatedContent(embs, metas, highlighted_text, context,
                        NoArg, top_k_per_type, threshold, DefaultFocalWeight,
                        Some(doc_type), NoArg)
          calls == [acc EXCEPT !.gen_calls = @ \o result.gen_calls,
                               !.search_calls = @ \o result.search_calls]
      IN ByTypeLoop(embs, metas, highlighted_text, context, top_k_per_type,
                    threshold, Tail(types),
                    IF result.raised
                    THEN [calls EXCEPT !.raised = TRUE]
                    ELSE [calls EXCEPT !.results =
                             MapSet(@, doc_type,
                                    result.result.val.related_documents)])

\* document_types or [the default types]
TypesOrDefault(document_types) ==
    IF document_types.some /\ document_types.val # <<>>
    THEN document_types.val ELSE DefaultDocumentTypes

find_related_by_document_type(highlighted_text, context, top_k_per_type, threshold, document_types) ==
    LET types == TypesOrDefault(document_types)
        done == ByTypeLoop(embeddings, metadata, highlighted_text, context,
                    top_k_per_type, threshold, types,
                    [gen_calls |-> <<>>, search_calls |-> <<>>,
                     raised |-> FALSE, results |-> EmptyDict])
    IN
    /\ last.op = "idle"
    /\ last' = [op |-> "find_related_by_document_type",
                highlighted_text |-> highlighted_text, context |-> context,
                top_k_per_type |-> top_k_per_type, threshold |-> threshold,
                document_types |-> document_types,
                gen_calls |-> done.gen_calls,
                search_calls |-> done.search_calls,
                ret |-> [raised |-> done.raised, results |-> done.results]]
    /\ UNCHANGED <<embeddings, metadata>>
    /\ UNCHANGED tasks

\* threshold=0.6 and focal_weight=1.0, the values find_mentions passes.
MentionsThreshold == (6 * Scale) \div 10
MentionsFocalWeight == WeightScale

\* has_entity_type(doc): metadata.get("entity_types") is a dict and its
\* value for the entity type is truthy.  The value of entity_types is held
\* as [isdict, items].
HasEntityType(doc, etype) ==
    /\ "entity_types" \in DOMAIN doc.metadata
    /\ doc.metadata["entity_types"].isdict
    /\ etype \in DOMAIN doc.metadata["entity_types"].items
    /\ doc.metadata["entity_types"].items[etype]

\* The filtered list, empty or not.
FilteredOnly(filtered, related_documents) == filtered

\* return filtered if filtered else result.related_documents
FilteredOrAll(filtered, related_documents) ==
    IF filtered # <<>> THEN filtered ELSE related_documents

find_mentions(entity_text, entity_type, source_document_id, top_k) ==
    LET done == FindRelatedContent(embeddings, metadata, entity_text, NoArg,
                    source_document_id, top_k, MentionsThreshold,
                    MentionsFocalWeight, NoArg, NoArg)
        related == done.result.val.related_documents
        filtered == SelectSeq(related,
                        LAMBDA doc : HasEntityType(doc, entity_type.val))
    IN
    /\ last.op = "idle"
    /\ last' = [op |-> "find_mentions", entity_text |-> entity_text,
                entity_type |-> entity_type,
                source_document_id |-> source_document_id, top_k |-> top_k,
                gen_calls |-> done.gen_calls,
                search_calls |-> done.search_calls,
                search_result |-> IF done.raised THEN <<>> ELSE related,
                ret |-> IF done.raised THEN [raised |-> TRUE]
                        ELSE [raised |-> FALSE,
                              documents |->
                                  IF TruthyStr(entity_type)
                                  THEN FilteredOrAll(filtered, related)
                                  ELSE related]]
    /\ UNCHANGED <<embeddings, metadata>>
    /\ UNCHANGED tasks

(* Inputs of the HighlightService specification *)

\* Vectors of the stored documents: the direction of the text "c1" and a
\* diagonal next to it.
HighlightVectors == {<<1, 0>>, <<1, 1>>}

\* Metadata of the stored documents: a note that mentions an ORG, an email
\* whose ORG flag is off, and a document of no type whose entity_types is
\* not a dict.
HighlightMetas ==
    { [document_type |-> "note",
       entity_types |-> [isdict |-> TRUE, items |-> [ORG |-> TRUE]]],
      [document_type |-> "email",
       entity_types |-> [isdict |-> TRUE, items |-> [ORG |-> FALSE]]],
      [entity_types |-> [isdict |-> FALSE]] }

HighlightContexts == {NoArg, Some(""), Some("c2")}

FocalWeights == {5, 7}

HighlightThresholds == {Scale \div 2, Scale}

\* source_document_id with exclude_document_ids; "d3" is an id the store
\* never holds.
Exclusions ==
    { <<NoArg, NoArg>>,
      <<Some("d1"), NoArg>>,
      <<NoArg, Some(<<"d3">>)>>,
      <<Some("d1"), Some(<<"d1", "d2">>)>> }

DocumentTypeLists ==
    { NoArg, Some(<<>>), Some(<<"note">>), Some(<<"note", "email">>),
      Some(<<"email", "email">>) }

EntityTypes == {NoArg, Some(""), Some("ORG"), Some("PERSON")}

AddDocumentCall ==
    \E id \in DocIds, e \in HighlightVectors, md \in HighlightMetas :
        add_embedding(id, e, Some(md))

EmbedWithContextCall ==
    \E text \in Contents, context \in Contents, w \in FocalWeights :
        embed_with_context(text, context, w)

FindRelatedContentCall ==
    \E text \in Contents, context \in HighlightContexts, ex \in Exclusions,
       k \in 1..MaxTopK, t \in HighlightThresholds, w \in FocalWeights,
       type \in Optional({"note", "email"}) :
        find_related_content(text, context, ex[1], k, t, w, type, ex[2])

FindRelatedByDocumentTypeCall ==
    \E text \in Contents, context \in HighlightContexts, k \in 1..MaxTopK,
       t \in HighlightThresholds, types \in DocumentTypeLists :
        find_related_by_document_type(text, context, k, t, types)

FindMentionsCall ==
    \E text \in Contents, etype \in EntityTypes,
       source \in Optional({"d1"}), k \in 1..MaxTopK :
        find_mentions(text, etype, source, k)

NextHighlight ==
    \/ AddDocumentCall
    \/ EmbedWithContextCall
    \/ FindRelatedContentCall
    \/ FindRelatedByDocumentTypeCall
    \/ FindMentionsCall
    \/ Return

SpecHighlight == Init /\ [][NextHighlight]_vars

---------------------------------------------------------------------------
(* Properties of the generator and of HighlightService, checked under
   SpecHighlight *)

\* The weighted sum of the two embeddings of the last embed_with_context.
CombinedOfLast ==
    Combine(Embed(<<last.focal_text>>)[1], Embed(<<last.context>>)[1],
            last.focal_weight)

\* C16: embed_with_context raises an error when the weighted combination of
\* the two embeddings is the zero vector; it does not divide by the zero
\* norm and return a value.
C16_ZeroCombinationRejected ==
    (last.op = "embed_with_context" /\ IsZeroVector(CombinedOfLast)) =>
        last.ret.raised

FindRelatedReturned == last.op = "find_related_content" /\ ~last.ret.raised

\* The ids the last find_related_content must leave out: the exclude list
\* and the source document.
ExcludedOfLast ==
    (IF last.exclude_document_ids.some
     THEN {last.exclude_document_ids.val[i] :
               i \in 1..Len(last.exclude_document_ids.val)}
     ELSE {})
        \cup (IF last.source_document_id.some
              THEN {last.source_document_id.val} ELSE {})

\* The whole ranking of the store for the query of the last
\* find_related_content: every stored record that passes the type filter
\* and the threshold, best first.
RankingOfLast ==
    Search(embeddings, metadata, last.search_calls[1].query_embedding,
           Len(embeddings), last.threshold,
           IF last.filter_document_type.some
           THEN Some([k \in {"document_type"} |-> last.filter_document_type.val])
           ELSE NoArg).results

\* The ranking without the excluded ids.
CandidatesOfLast ==
    SelectSeq(RankingOfLast, LAMBDA r : r.document_id \notin ExcludedOfLast)

Min(a, b) == IF a < b THEN a ELSE b

C17_WitnessCut ==
    /\ FindRelatedReturned
    /\ ExcludedOfLast # {}
    /\ Len(CandidatesOfLast) > last.top_k
    /\ Len(last.ret.result.val.related_documents) = last.top_k

FindMentionsReturned == last.op = "find_mentions" /\ ~last.ret.raised

\* The documents of the search result of the last find_mentions whose
\* metadata holds a truthy entity_types[entity_type], in their order.
MentionsOfType ==
    SelectSeq(last.search_result,
        LAMBDA doc :
            /\ "entity_types" \in DOMAIN doc.metadata
            /\ doc.metadata["entity_types"].isdict
            /\ last.entity_type.val
                  \in DOMAIN doc.metadata["entity_types"].items
            /\ doc.metadata["entity_types"].items[last.entity_type.val])

\* C18: find_mentions with an entity_type returns only the documents of the
\* search result whose metadata.entity_types[entity_type] is truthy, in
\* their original order, when there is at least one; when no document of
\* the search result qualifies it returns the search result unchanged.
C18_EntityTypeFilterFallback ==
    (FindMentionsReturned /\ TruthyStr(last.entity_type)) =>
        /\ MentionsOfType # <<>> => last.ret.documents = MentionsOfType
        /\ MentionsOfType = <<>> => last.ret.documents = last.search_result

\* Both outcomes: a search result of two documents of which the second
\* alone mentions the entity type ...
C18_Witness ==
    /\ FindMentionsReturned
    /\ TruthyStr(last.entity_type)
    /\ Len(last.search_result) = 2
    /\ MentionsOfType = <<last.search_result[2]>>
    /\ last.ret.documents = MentionsOfType

\* ... and a search result with documents of which none mentions it.
C18_WitnessFallback ==
    /\ FindMentionsReturned
    /\ TruthyStr(last.entity_type)
    /\ last.search_result # <<>>
    /\ MentionsOfType = <<>>
    /\ last.ret.documents = last.search_result

ByTypeReturned ==
    last.op = "find_related_by_document_type" /\ ~last.ret.raised

\* The types the last find_related_by_document_type was asked for: the
\* given list, or the four default types.
RequestedTypes ==
    IF last.document_types.some /\ last.document_types.val # <<>>
    THEN last.document_types.val
    ELSE <<"note", "email", "documentation", "task">>

\* What a search of the store gives for the query of search call i of the
\* last call, filtered on one document type and cut at top_k_per_type.
OwnQueryOf(i, doc_type) ==
    Search(embeddings, metadata, last.search_calls[i].query_embedding,
           last.top_k_per_type, last.threshold,
           Some([k \in {"document_type"} |-> doc_type])).results

C20_NoContextEmbedsAlone ==
    (/\ last.op = "find_related_content"
     /\ (~last.context.some \/ last.context.val = "")) =>
        /\ last.gen_calls
              = << [fn |-> "embed", texts |-> <<last.highlighted_text>>] >>
        /\ last.search_calls[1].query_embedding
              = Encode(last.highlighted_text)

\* An empty context is passed with a focal_weight that would have mixed it
\* in by half, and the search finds a document.
C20_Witness ==
    /\ FindRelatedReturned
    /\ last.context = Some("")
    /\ last.focal_weight = 5
    /\ last.gen_calls[1].fn = "embed"
    /\ last.ret.result.val.related_documents # <<>>

---------------------------------------------------------------------------
(* Concurrent embed_document coroutines over a store whose calls suspend *)

\* embed_document up to its first await: the hash is computed; with
\* skip_if_unchanged the coroutine waits for get_embedding, without it the
\* generator is called at once and the coroutine waits for add_embedding.
\* overlap will record that the coroutine and another one of the same id
\* both went past get_embedding before either add_embedding took effect.
EmbedBegin(t, document_id, content, md, skip_if_unchanged) ==
    LET call == [document_id |-> document_id, content |-> content,
                 metadata |-> md, skip_if_unchanged |-> skip_if_unchanged,
                 content_hash |-> ComputeHash(content), overlap |-> FALSE]
    IN
    /\ last.op = "idle"
    /\ tasks[t].pc = "idle"
    /\ tasks' = [tasks EXCEPT ![t] =
          IF skip_if_unchanged
          THEN call @@ [pc |-> "get_embedding", gen_calls |-> <<>>]
          ELSE call @@ [pc |-> "add_embedding",
                        gen_calls |-> << <<content>> >>,
                        embedding |-> ToList(Embed(<<content>>)[1]),
                        full_metadata |-> FullMetadata(ComputeHash(content), md)]]
    /\ UNCHANGED <<embeddings, metadata, last>>

\* Another coroutine holds a vector of the same id that it has not written.
OtherIsWriting(t) ==
    \E o \in TaskIds \ {t} :
        /\ tasks[o].pc = "add_embedding"
        /\ tasks[o].document_id = tasks[t].document_id

\* get_embedding answers: an unchanged document returns the stored vector,
\* any other goes through the generator and waits for add_embedding.
EmbedRead(t) ==
    LET me == tasks[t]
        existing == GetEmbedding(embeddings, metadata, me.document_id)
    IN
    /\ me.pc = "get_embedding"
    /\ tasks' =
          IF existing.found /\ HashEqual(existing.metadata, me.content_hash)
          THEN [tasks EXCEPT ![t] =
                  [pc |-> "done",
                   ret |-> [raised |-> FALSE, skipped |-> TRUE,
                            result |-> EmbeddingResult(me.document_id,
                                existing.embedding, me.content_hash,
                                existing.metadata)]] @@ me]
          ELSE [o \in TaskIds |->
                  IF o = t
                  THEN [pc |-> "add_embedding",
                        gen_calls |-> << <<me.content>> >>,
                        overlap |-> OtherIsWriting(t),
                        embedding |-> ToList(Embed(<<me.content>>)[1]),
                        full_metadata |->
                            FullMetadata(me.content_hash, me.metadata)] @@ me
                  ELSE IF tasks[o].pc = "add_embedding"
                          /\ tasks[o].document_id = me.document_id
                       THEN [overlap |-> TRUE] @@ tasks[o]
                       ELSE tasks[o]]
    /\ UNCHANGED <<embeddings, metadata, last>>

\* The number of add_embedding calls the coroutines in flight have made.
WritesMade == Cardinality({o \in TaskIds : "wrote" \in DOMAIN tasks[o]})

\* add_embedding takes effect and embed_document returns its result.
EmbedWrite(t) ==
    LET me == tasks[t]
    IN
    /\ me.pc = "add_embedding"
    /\ embeddings' = DictSet(embeddings, me.document_id,
                             ToFloat32Array(me.embedding))
    /\ metadata' = MapSet(metadata, me.document_id,
                          OrEmpty(Some(me.full_metadata)))
    /\ tasks' = [tasks EXCEPT ![t] =
          [pc |-> "done", wrote |-> WritesMade + 1,
           ret |-> [raised |-> FALSE, skipped |-> FALSE,
                    result |-> EmbeddingResult(me.document_id, me.embedding,
                                   me.content_hash, me.full_metadata)]] @@ me]
    /\ UNCHANGED last

\* Every coroutine that was started has returned: the caller collects the
\* outcomes.
Gather ==
    /\ \E t \in TaskIds : tasks[t].pc # "idle"
    /\ \A t \in TaskIds : tasks[t].pc \in {"idle", "done"}
    /\ tasks' = NoTasks
    /\ UNCHANGED <<embeddings, metadata, last>>

EmbedBeginCall ==
    \E t \in TaskIds, id \in DocIds, c \in Contents, md \in ServiceMetas,
       skip \in BOOLEAN :
        EmbedBegin(t, id, c, md, skip)

NextConcurrent ==
    \/ EmbedBeginCall
    \/ \E t \in TaskIds : EmbedRead(t)
    \/ \E t \in TaskIds : EmbedWrite(t)
    \/ Gather

SpecConcurrent == Init /\ [][NextConcurrent]_vars

---------------------------------------------------------------------------
(* Properties of concurrent embed_document calls, checked under
   SpecConcurrent *)

\* Both coroutines have returned from embed_document for one id, and both
\* read the stored fingerprint before either wrote.
BothReadBeforeWrite ==
    /\ \A t \in TaskIds :
          /\ tasks[t].pc = "done"
          /\ tasks[t].skip_if_unchanged
          /\ tasks[t].overlap
    /\ tasks["t1"].document_id = tasks["t2"].document_id

\* The coroutine whose add_embedding took effect last.
LaterWriter == CHOOSE t \in TaskIds : tasks[t].wrote = Cardinality(TaskIds)

\* C11: two concurrent embed_document calls for one id that both read the
\* stored fingerprint before either writes both call the generator; when
\* both have finished the stored record is the one written by the later
\* add_embedding; and when both carry the same content the stored
\* content_hash is the fingerprint of that content.
C11_ConcurrentSameId ==
    BothReadBeforeWrite =>
        LET id == tasks["t1"].document_id
            got == GetEmbedding(embeddings, metadata, id)
        IN /\ \A t \in TaskIds :
                 tasks[t].gen_calls = << <<tasks[t].content>> >>
           /\ got.found
           /\ got.embedding = ToFloat32Array(tasks[LaterWriter].embedding)
           /\ got.metadata = tasks[LaterWriter].full_metadata
           /\ tasks["t1"].content = tasks["t2"].content =>
                 StoredHashIs(embeddings, metadata, id, tasks["t1"].content)

---------------------------------------------------------------------------
(* Further properties of EmbeddingService, checked under SpecService *)

\* C23: embed_documents_batch on an empty input returns total = 0,
\* successful = 0, skipped = 0, failed = 0 and an empty error list, makes no
\* generator call and leaves the store as it was.
C23_EmptyBatch ==
    (BatchReturned /\ last.documents = <<>>) =>
        /\ last.ret.total = 0
        /\ last.ret.successful = 0
        /\ last.ret.skipped = 0
        /\ last.ret.failed = 0
        /\ last.ret.errors = <<>>
        /\ last.ret.results = <<>>
        /\ last.gen_calls = <<>>
        /\ last.writes = <<>>
        /\ embeddings = last.pre_embeddings
        /\ metadata = last.pre_metadata

\* An empty batch on a store that holds a record.
C23_Witness ==
    /\ BatchReturned
    /\ last.documents = <<>>
    /\ embeddings # <<>>

---------------------------------------------------------------------------
(* Repeated searches, checked under SpecRepeat *)

---------------------------------------------------------------------------
(* embed_document right after delete_embedding, checked under
   SpecAfterDelete *)

EmbedAfterDelete == last.op = "embed_document" /\ last.after_delete

\* C30: after delete_embedding(id) the next embed_document(id, content)
\* calls the generator exactly once and creates the record again, also when
\* the record deleted carried the fingerprint of that very content; the
\* outcome is never the Skipped one.
C30_ReembedAfterDelete ==
    EmbedAfterDelete =>
        /\ ~DictHas(last.pre_embeddings, last.document_id)
        /\ last.gen_calls = << <<last.content>> >>
        /\ ~last.ret.raised =>
              /\ DictHas(embeddings, last.document_id)
              /\ DictGet(embeddings, last.document_id)
                    = ToFloat32Array(Encode(last.content))
              /\ last.ret.result.embedding = Encode(last.content)
              /\ Count(embeddings) = Count(last.pre_embeddings) + 1

\* The record deleted held the fingerprint of the content that is embedded
\* next, with skip_if_unchanged on, and the record is there again.
C30_Witness ==
    /\ EmbedAfterDelete
    /\ last.skip_if_unchanged
    /\ StoredHashIs(last.before_delete_embeddings, last.before_delete_metadata,
                    last.document_id, last.content)
    /\ ~last.ret.raised
    /\ DictHas(embeddings, last.document_id)

---------------------------------------------------------------------------
(* Resubmitted batches, checked under SpecRetry *)

\* The places of the documents of a batch call that were not Skipped.
RECURSIVE PendingPlacesOf(_, _)
PendingPlacesOf(call, i) ==
    IF i > Len(call.documents) THEN <<>>
    ELSE IF call.skip_if_unchanged
            /\ StoredHashIs(call.pre_embeddings, call.pre_metadata,
                            call.documents[i][1], call.documents[i][2])
         THEN PendingPlacesOf(call, i + 1)
         ELSE <<i>> \o PendingPlacesOf(call, i + 1)

\* The places of the documents a batch call stored, and of those whose
\* add_embedding failed.
StoredPlacesOf(call) ==
    {PendingPlacesOf(call, 1)[call.writes[n].place] : n \in 1..Len(call.writes)}

FailedPlacesOf(call) ==
    {PendingPlacesOf(call, 1)[j] : j \in call.store_failed}

\* The contents of the documents at a set of places, in input order.
RECURSIVE ContentsAt(_, _, _)
ContentsAt(documents, places, i) ==
    IF i > Len(documents) THEN <<>>
    ELSE (IF i \in places THEN <<documents[i][2]>> ELSE <<>>)
            \o ContentsAt(documents, places, i + 1)

RetryReturned ==
    /\ BatchReturned
    /\ last.retry
    /\ last.skip_if_unchanged

\* The places of a sequence of places.
PlaceSet(places) == {places[j] : j \in 1..Len(places)}

\* C25: after a batch that returned per-item storage errors, the same
\* documents submitted again are classified so that every item stored the
\* first time is Skipped, and the generator is given contents of items that
\* failed the first time and of no others.
C25_RetryOnlyFailed ==
    RetryReturned =>
        LET again == PlaceSet(PendingPlacesOf(last, 1))
        IN /\ StoredPlacesOf(last.first) \cap again = {}
           /\ again \subseteq FailedPlacesOf(last.first)
           /\ last.gen_calls
                 = IF again = {} THEN <<>>
                   ELSE << ContentsAt(last.documents, again, 1) >>

\* C28: in every state reached by embed_document and embed_documents_batch
\* calls, every stored record's content_hash is the hash of the content from
\* which the vector stored under that document id was generated.
C28_HashMatchesVector ==
    \A id \in DocIds : RecordOfOneContent(embeddings, metadata, id)

\* ---------------------------------------------------------------------
\* InMemoryVectorStore.add_embeddings_batch

\* The loop of add_embeddings_batch from item i on: one add_embedding per
\* item, with the item's metadata when the list is truthy and None otherwise.
RECURSIVE AddLoop(_, _, _, _, _, _)
AddLoop(embs, metas, document_ids, embedding_list, metadata_list, i) ==
    IF i > Len(document_ids) \/ i > Len(embedding_list)
    THEN [embeddings |-> embs, metadata |-> metas]
    ELSE LET meta == IF metadata_list.some /\ metadata_list.val # <<>>
                     THEN Some(metadata_list.val[i]) ELSE NoArg
         IN AddLoop(DictSet(embs, document_ids[i],
                            ToFloat32Array(embedding_list[i])),
                    MapSet(metas, document_ids[i], OrEmpty(meta)),
                    document_ids, embedding_list, metadata_list, i + 1)

\* A batch that writes the items both sequences have before it compares
\* the lengths.
AddEmbeddingsBatchLate(embs, metas, document_ids, embedding_list, metadata_list) ==
    LET n == IF Len(document_ids) < Len(embedding_list)
             THEN Len(document_ids) ELSE Len(embedding_list)
        done == AddLoop(embs, metas, SubSeq(document_ids, 1, n),
                        SubSeq(embedding_list, 1, n), NoArg, 1)
    IN IF \/ Len(document_ids) # Len(embedding_list)
          \/ metadata_list.some /\ Len(metadata_list.val) # Len(document_ids)
       THEN [raised |-> "ValueError"] @@ done
       ELSE [raised |-> "None"]
                @@ AddLoop(embs, metas, document_ids, embedding_list,
                           metadata_list, 1)

\* The two length checks come first and raise ValueError; only then the loop.
AddEmbeddingsBatch(embs, metas, document_ids, embedding_list, metadata_list) ==
    IF Len(document_ids) # Len(embedding_list)
    THEN [raised |-> "ValueError", embeddings |-> embs, metadata |-> metas]
    ELSE IF metadata_list.some /\ Len(metadata_list.val) # Len(document_ids)
    THEN [raised |-> "ValueError", embeddings |-> embs, metadata |-> metas]
    ELSE [raised |-> "None"]
             @@ AddLoop(embs, metas, document_ids, embedding_list,
                        metadata_list, 1)

add_embeddings_batch(document_ids, embedding_list, metadata_list) ==
    /\ last.op = "idle"
    /\ LET done == AddEmbeddingsBatch(embeddings, metadata, document_ids,
                                      embedding_list, metadata_list)
       IN /\ embeddings' = done.embeddings
          /\ metadata' = done.metadata
          /\ last' = [op |-> "add_embeddings_batch",
                      document_ids |-> document_ids,
                      embeddings |-> embedding_list,
                      metadata_list |-> metadata_list,
                      ret |-> [raised |-> done.raised],
                      pre_embeddings |-> embeddings,
                      pre_metadata |-> metadata]
    /\ UNCHANGED tasks

\* Batches of the store: ids, vectors and metadata lists of every length up
\* to MaxBatch, so that the lengths agree or differ in every way.
BatchVectors == {<<1, 0>>, <<0, 1>>}
BatchMetaDicts == {EmptyDict, [k \in {"document_type"} |-> "note"]}

AddEmbeddingsBatchCall ==
    \E ids \in SeqsUpTo(DocIds, MaxBatch), es \in SeqsUpTo(BatchVectors, MaxBatch), ml \in Optional(SeqsUpTo(BatchMetaDicts, MaxBatch)) :
        add_embeddings_batch(ids, es, ml)

AddOneCall ==
    \E id \in DocIds, e \in BatchVectors, md \in Optional(BatchMetaDicts) :
        add_embedding(id, e, md)

\* The store with every operation that writes to it, and count.
NextBatchStore ==
    \/ AddOneCall
    \/ AddEmbeddingsBatchCall
    \/ DeleteEmbeddingCall
    \/ count
    \/ clear
    \/ Return

SpecBatchStore == Init /\ [][NextBatchStore]_vars

AddBatchReturned == last.op = "add_embeddings_batch"

LengthsDiffer ==
    \/ Len(last.document_ids) # Len(last.embeddings)
    \/ last.metadata_list.some
         /\ Len(last.metadata_list.val) # Len(last.document_ids)

\* C24: add_embeddings_batch whose document_ids and embeddings, or whose
\* metadata_list when one is given, differ in length raises ValueError and
\* leaves the store exactly as it was before the call.
C24_LengthMismatchWritesNothing ==
    (AddBatchReturned /\ LengthsDiffer) =>
        /\ last.ret.raised = "ValueError"
        /\ embeddings = last.pre_embeddings
        /\ metadata = last.pre_metadata

\* A batch with one id more than vectors, the first id new to the store,
\* was rejected.
C24_Witness ==
    /\ AddBatchReturned
    /\ Len(last.document_ids) = 2 /\ Len(last.embeddings) = 1
    /\ ~DictHas(last.pre_embeddings, last.document_ids[1])
    /\ last.ret.raised = "ValueError"

\* A batch whose metadata list is given and shorter than its ids was
\* rejected over a store that holds a record.
C24_WitnessMetadata ==
    /\ AddBatchReturned
    /\ Len(last.document_ids) = Len(last.embeddings)
    /\ last.metadata_list.some
    /\ Len(last.metadata_list.val) < Len(last.document_ids)
    /\ last.pre_embeddings # <<>>
    /\ last.ret.raised = "ValueError"

\* C29: in every state of the in-memory store reached by add_embedding,
\* add_embeddings_batch, delete_embedding and clear, the ids that have a
\* vector are the ids that have metadata, count() returns the number of
\* distinct ids among them, and right after clear that number is 0.
C29_IdsAgreeAndCounted ==
    /\ DictKeys(embeddings) = DOMAIN metadata
    /\ Count(embeddings) = Cardinality(DictKeys(embeddings))
    /\ last.op = "count" => last.ret = Cardinality(DOMAIN metadata)
    /\ last.op = "clear" => Count(embeddings) = 0

\* count() has answered 1 over a store whose one id was written twice, the
\* second time by a batch.
C29_Witness ==
    /\ last.op = "count"
    /\ last.ret = 1
    /\ DictKeys(embeddings) = {"d1"}
    /\ DictGet(embeddings, "d1") = <<0, 1>>
    /\ metadata["d1"] = [k \in {"document_type"} |-> "note"]

\* clear has returned and left the store empty.
C29_WitnessClear ==
    /\ last.op = "clear"
    /\ embeddings = <<>>
    /\ DOMAIN metadata = {}

\* ---------------------------------------------------------------------
\* SimilarityService.compute_similarity

\* f"Document not found: {document_id}"
NotFoundMessage(document_id) == <<"Document not found: ", document_id>>

\* float(np.dot(vec1, vec2) / (np.linalg.norm(vec1) * np.linalg.norm(vec2))),
\* in units of 1/Scale: np.dot raises ValueError on vectors of different
\* lengths, and a zero norm divides 0 by 0, which is NaN and no exception.
CosineOf(vec1, vec2) ==
    IF Len(vec1) # Len(vec2)
    THEN [raised |-> "ValueError", message |-> <<"shapes not aligned">>]
    ELSE LET norms == Norm(vec1) * Norm(vec2)
         IN [raised |-> "None",
             value |-> IF norms = 0 THEN NaN
                       ELSE (DotSum(vec1, vec2, Len(vec1)) * Scale * Scale * Scale) \div norms]

\* A lookup that tests the second record before the first.
ComputeSimilaritySecondFirst(embs, metas, document_id_1, document_id_2) ==
    LET emb1 == GetEmbedding(embs, metas, document_id_1)
        emb2 == GetEmbedding(embs, metas, document_id_2)
    IN IF ~emb2.found
       THEN [raised |-> "ValueError", message |-> NotFoundMessage(document_id_2)]
       ELSE IF ~emb1.found
       THEN [raised |-> "ValueError", message |-> NotFoundMessage(document_id_1)]
       ELSE CosineOf(emb1.embedding, emb2.embedding)

\* Both records are read, then the first is tested, then the second.
ComputeSimilarity(embs, metas, document_id_1, document_id_2) ==
    LET emb1 == GetEmbedding(embs, metas, document_id_1)
        emb2 == GetEmbedding(embs, metas, document_id_2)
    IN IF ~emb1.found
       THEN [raised |-> "ValueError", message |-> NotFoundMessage(document_id_1)]
       ELSE IF ~emb2.found
       THEN [raised |-> "ValueError", message |-> NotFoundMessage(document_id_2)]
       ELSE CosineOf(emb1.embedding, emb2.embedding)

compute_similarity(document_id_1, document_id_2) ==
    /\ last.op = "idle"
    /\ last' = [op |-> "compute_similarity",
                document_id_1 |-> document_id_1,
                document_id_2 |-> document_id_2,
                ret |-> ComputeSimilarity(embeddings, metadata,
                                          document_id_1, document_id_2),
                pre_embeddings |-> embeddings, pre_metadata |-> metadata]
    /\ UNCHANGED <<embeddings, metadata>>
    /\ UNCHANGED tasks

ComputeSimilarityCall ==
    \E id1 \in DocIds, id2 \in DocIds : compute_similarity(id1, id2)

AddVectorCall ==
    \E id \in DocIds, e \in Vectors : add_embedding(id, e, NoArg)

\* The similarity service over a store that is written to and deleted from.
NextSimilarity ==
    \/ AddVectorCall
    \/ DeleteEmbeddingCall
    \/ ComputeSimilarityCall
    \/ Return

SpecSimilarity == Init /\ [][NextSimilarity]_vars

ComputeSimilarityReturned == last.op = "compute_similarity"

\* C21: compute_similarity(id1, id2) raises the not-found error naming id1
\* when id1 has no stored record, the one naming id2 when id1 has a record
\* and id2 has none, returns a value only when both have a record, and
\* leaves the store as it was.
C21_NotFoundNamesFirstAbsent ==
    ComputeSimilarityReturned =>
        LET has1 == DictHas(last.pre_embeddings, last.document_id_1)
            has2 == DictHas(last.pre_embeddings, last.document_id_2)
        IN /\ ~has1 =>
                 /\ last.ret.raised = "ValueError"
                 /\ last.ret.message = NotFoundMessage(last.document_id_1)
           /\ (has1 /\ ~has2) =>
                 /\ last.ret.raised = "ValueError"
                 /\ last.ret.message = NotFoundMessage(last.document_id_2)
           /\ last.ret.raised = "None" => (has1 /\ has2)
           /\ embeddings = last.pre_embeddings
           /\ metadata = last.pre_metadata

\* Two different ids, neither of them stored while the store holds nothing:
\* the error names the first.
C21_Witness ==
    /\ ComputeSimilarityReturned
    /\ last.document_id_1 # last.document_id_2
    /\ last.pre_embeddings = <<>>
    /\ last.ret.raised = "ValueError"
    /\ last.ret.message = NotFoundMessage(last.document_id_1)

\* The first id is stored and the second is not: the error names the second.
C21_WitnessSecond ==
    /\ ComputeSimilarityReturned
    /\ DictHas(last.pre_embeddings, last.document_id_1)
    /\ ~DictHas(last.pre_embeddings, last.document_id_2)
    /\ last.ret.message = NotFoundMessage(last.document_id_2)

\* Both ids are stored and a value is returned.
C21_WitnessValue ==
    /\ ComputeSimilarityReturned
    /\ last.document_id_1 # last.document_id_2
    /\ last.ret.raised = "None"
    /\ last.ret.value = Scale

---------------------------------------------------------------------------
(* Coroutines of one event loop calling one InMemoryVectorStore *)

\* Pre-emptive scheduling: any coroutine runs at any statement.
RunsAnywhere(ts, t) == TRUE

\* The event loop runs the next statement of coroutine t only when no other
\* coroutine is inside a store operation: the loop changes coroutine at an
\* await that suspends, and no statement of add_embedding, search,
\* get_embedding, delete_embedding, count or clear awaits.
MayRun(ts, t) == \A u \in TaskIds \ {t} : ts[u].pc = "idle"

StoreReads == {"search", "get_embedding", "count"}
StoreWrites == {"add_embedding", "delete_embedding", "clear"}

\* The first statement of each operation.
FirstPc(op) ==
    CASE op = "add_embedding" -> "set_embedding"
      [] op = "delete_embedding" -> "del_embedding"
      [] op = "clear" -> "clear_embeddings"
      [] op = "search" -> "not_embeddings"
      [] op = "get_embedding" -> "not_in"
      [] op = "count" -> "len"

\* A coroutine calls an operation of the store; the store as it is at the
\* call is kept for the properties.
StoreCallBegin(t, call) ==
    /\ last.op = "idle"
    /\ tasks[t].pc = "idle"
    /\ MayRun(tasks, t)
    /\ tasks' = [tasks EXCEPT ![t] =
          [pc |-> FirstPc(call.op), pre_embeddings |-> embeddings,
           pre_metadata |-> metadata] @@ call]
    /\ UNCHANGED <<embeddings, metadata, last>>

\* self._embeddings[document_id] = np.array(embedding, dtype=np.float32)
SetEmbedding(t) ==
    LET me == tasks[t]
    IN /\ me.pc = "set_embedding"
       /\ MayRun(tasks, t)
       /\ embeddings' = DictSet(embeddings, me.document_id,
                                ToFloat32Array(me.embedding))
       /\ tasks' = [tasks EXCEPT ![t] = [pc |-> "set_metadata"] @@ me]
       /\ UNCHANGED <<metadata, last>>

\* self._metadata[document_id] = metadata or {}
SetMetadata(t) ==
    LET me == tasks[t]
    IN /\ me.pc = "set_metadata"
       /\ MayRun(tasks, t)
       /\ metadata' = MapSet(metadata, me.document_id, OrEmpty(me.metadata))
       /\ tasks' = [tasks EXCEPT ![t] =
             [pc |-> "done", ret |-> [raised |-> "None"]] @@ me]
       /\ UNCHANGED <<embeddings, last>>

\* if document_id in self._embeddings: del self._embeddings[document_id]
DelEmbedding(t) ==
    LET me == tasks[t]
    IN /\ me.pc = "del_embedding"
       /\ MayRun(tasks, t)
       /\ IF DictHas(embeddings, me.document_id)
          THEN /\ embeddings' = DictDel(embeddings, me.document_id)
               /\ tasks' = [tasks EXCEPT ![t] = [pc |-> "pop_metadata"] @@ me]
          ELSE /\ UNCHANGED embeddings
               /\ tasks' = [tasks EXCEPT ![t] =
                     [pc |-> "done",
                      ret |-> [raised |-> "None", value |-> FALSE]] @@ me]
       /\ UNCHANGED <<metadata, last>>

\* self._metadata.pop(document_id, None); return True
PopMetadata(t) ==
    LET me == tasks[t]
    IN /\ me.pc = "pop_metadata"
       /\ MayRun(tasks, t)
       /\ metadata' = MapPop(metadata, me.document_id)
       /\ tasks' = [tasks EXCEPT ![t] =
             [pc |-> "done",
              ret |-> [raised |-> "None", value |-> TRUE]] @@ me]
       /\ UNCHANGED <<embeddings, last>>

\* self._embeddings.clear()
ClearEmbeddings(t) ==
    LET me == tasks[t]
    IN /\ me.pc = "clear_embeddings"
       /\ MayRun(tasks, t)
       /\ embeddings' = <<>>
       /\ tasks' = [tasks EXCEPT ![t] = [pc |-> "clear_metadata"] @@ me]
       /\ UNCHANGED <<metadata, last>>

\* self._metadata.clear()
ClearMetadata(t) ==
    LET me == tasks[t]
    IN /\ me.pc = "clear_metadata"
       /\ MayRun(tasks, t)
       /\ metadata' = EmptyDict
       /\ tasks' = [tasks EXCEPT ![t] =
             [pc |-> "done", ret |-> [raised |-> "None"]] @@ me]
       /\ UNCHANGED <<embeddings, last>>

\* if not self._embeddings: return []; otherwise the query is normalized
\* and the iteration over self._embeddings.items() starts.
SearchStart(t) ==
    LET me == tasks[t]
    IN /\ me.pc = "not_embeddings"
       /\ MayRun(tasks, t)
       /\ tasks' = [tasks EXCEPT ![t] =
             IF Len(embeddings) = 0
             THEN [pc |-> "done",
                   ret |-> [raised |-> "None", results |-> <<>>]] @@ me
             ELSE [pc |-> "items", i |-> 1, size |-> Len(embeddings),
                   results |-> <<>>] @@ me]
       /\ UNCHANGED <<embeddings, metadata, last>>

\* One turn of the loop of search: the iterator raises RuntimeError when the
\* dict has changed size since the iteration started; otherwise the entry is
\* filtered and scored against the metadata as it is now, and after the last
\* entry the results are sorted and cut to top_k.
SearchItem(t) ==
    LET me == tasks[t]
        entry == SearchLoop(<<embeddings[me.i]>>, metadata,
                            Normalize(ToFloat32Array(me.query_embedding)),
                            me.threshold, me.filter_metadata, 1, me.results)
    IN /\ me.pc = "items"
       /\ MayRun(tasks, t)
       /\ tasks' = [tasks EXCEPT ![t] =
             IF Len(embeddings) # me.size
             THEN [pc |-> "done", ret |-> [raised |-> "RuntimeError"]] @@ me
             ELSE IF entry.raised
             THEN [pc |-> "done", ret |-> [raised |-> "ValueError"]] @@ me
             ELSE IF me.i < me.size
             THEN [i |-> me.i + 1, results |-> entry.results] @@ me
             ELSE [pc |-> "done",
                   ret |-> [raised |-> "None",
                            results |-> SliceTo(SortDesc(entry.results),
                                                me.top_k)]] @@ me]
       /\ UNCHANGED <<embeddings, metadata, last>>

\* if document_id not in self._embeddings: return None
GetNotIn(t) ==
    LET me == tasks[t]
    IN /\ me.pc = "not_in"
       /\ MayRun(tasks, t)
       /\ tasks' = [tasks EXCEPT ![t] =
             IF ~DictHas(embeddings, me.document_id)
             THEN [pc |-> "done",
                   ret |-> [raised |-> "None", value |-> [found |-> FALSE]]] @@ me
             ELSE [pc |-> "read"] @@ me]
       /\ UNCHANGED <<embeddings, metadata, last>>

\* return (self._embeddings[document_id].tolist(),
\*         self._metadata.get(document_id, {})): KeyError when the id has
\* left the dict since the test.
GetRead(t) ==
    LET me == tasks[t]
    IN /\ me.pc = "read"
       /\ MayRun(tasks, t)
       /\ tasks' = [tasks EXCEPT ![t] =
             IF ~DictHas(embeddings, me.document_id)
             THEN [pc |-> "done", ret |-> [raised |-> "KeyError"]] @@ me
             ELSE [pc |-> "done",
                   ret |-> [raised |-> "None",
                            value |-> GetEmbedding(embeddings, metadata,
                                                   me.document_id)]] @@ me]
       /\ UNCHANGED <<embeddings, metadata, last>>

\* return len(self._embeddings)
CountLen(t) ==
    LET me == tasks[t]
    IN /\ me.pc = "len"
       /\ MayRun(tasks, t)
       /\ tasks' = [tasks EXCEPT ![t] =
             [pc |-> "done",
              ret |-> [raised |-> "None", value |-> Count(embeddings)]] @@ me]
       /\ UNCHANGED <<embeddings, metadata, last>>

\* The operation returns to the coroutine that awaited it.
StoreCallReturn(t) ==
    /\ tasks[t].pc = "done"
    /\ "pre_embeddings" \in DOMAIN tasks[t]
    /\ MayRun(tasks, t)
    /\ tasks' = [tasks EXCEPT ![t] = [pc |-> "idle"]]
    /\ UNCHANGED <<embeddings, metadata, last>>

StoreCalls ==
    {[op |-> "add_embedding", document_id |-> id, embedding |-> e, metadata |-> md] : id \in DocIds, e \in BatchVectors, md \in Optional({[k \in {"document_type"} |-> "note"]})}
    \cup {[op |-> "delete_embedding", document_id |-> id] : id \in DocIds}
    \cup {[op |-> "clear"], [op |-> "count"]}
    \cup {[op |-> "get_embedding", document_id |-> id] : id \in DocIds}
    \cup {[op |-> "search", query_embedding |-> <<1, 0>>, top_k |-> MaxTopK, threshold |-> -Scale, filter_metadata |-> f] : f \in Optional({[k \in {"document_type"} |-> "note"]})}

NextLoop ==
    \/ \E t \in TaskIds, call \in StoreCalls : StoreCallBegin(t, call)
    \/ \E t \in TaskIds : SetEmbedding(t)
    \/ \E t \in TaskIds : SetMetadata(t)
    \/ \E t \in TaskIds : DelEmbedding(t)
    \/ \E t \in TaskIds : PopMetadata(t)
    \/ \E t \in TaskIds : ClearEmbeddings(t)
    \/ \E t \in TaskIds : ClearMetadata(t)
    \/ \E t \in TaskIds : SearchStart(t)
    \/ \E t \in TaskIds : SearchItem(t)
    \/ \E t \in TaskIds : GetNotIn(t)
    \/ \E t \in TaskIds : GetRead(t)
    \/ \E t \in TaskIds : CountLen(t)
    \/ \E t \in TaskIds : StoreCallReturn(t)

SpecLoop == Init /\ [][NextLoop]_vars

---------------------------------------------------------------------------
(* Properties of the store under concurrent coroutines, checked under
   SpecLoop *)

\* Coroutine t is inside an operation of the store.
InProgress(t) == tasks[t].pc \notin {"idle", "done"}

\* The store holds what it held when the write of t started, and of the
\* write only the statements t has executed.
OwnEffectOnly(t) ==
    LET me == tasks[t]
    IN /\ metadata = me.pre_metadata
       /\ embeddings =
            CASE me.pc = "set_metadata" ->
                   DictSet(me.pre_embeddings, me.document_id,
                           ToFloat32Array(me.embedding))
              [] me.pc = "pop_metadata" ->
                   DictDel(me.pre_embeddings, me.document_id)
              [] me.pc = "clear_metadata" -> <<>>
              [] OTHER -> me.pre_embeddings

C26_WitnessSearch ==
    \E t \in TaskIds :
        /\ tasks[t].pc = "done"
        /\ tasks[t].op = "search"
        /\ Len(tasks[t].pre_embeddings) = 2
        /\ Len(tasks[t].ret.results) = 2

---------------------------------------------------------------------------
(* PgVectorStore: the mutating operations over an AsyncSession *)

\* What an awaited call on the session can do: complete, raise an Exception
\* (a database or driver error), or raise asyncio.CancelledError, which is a
\* BaseException, when the task is cancelled while it waits.
SessionOutcomes == {"ok", "Exception", "CancelledError"}

\* meta_json = "{}" if metadata is None else str(metadata): str() of a dict
\* is its Python repr, which is JSON text for the empty dict only (keys and
\* strings are quoted with ', None is not null).
MetaJson(md) ==
    IF ~md.some THEN [text |-> "{}", json |-> TRUE]
    ELSE [text |-> <<"repr", md.val>>, json |-> DOMAIN md.val = {}]

\* await self._session.execute(...): the cast to jsonb rejects a text that
\* is not JSON; otherwise the session does what the environment makes it do.
ExecuteOutcome(statement, execute) ==
    IF execute = "ok" /\ statement.sql = "INSERT" /\ ~statement.metadata.json
    THEN "Exception"
    ELSE execute

\* The committed table after the statement.
Applied(embs, metas, statement) ==
    CASE statement.sql = "INSERT" ->
           [embeddings |-> DictSet(embs, statement.doc_id, statement.embedding),
            metadata |-> MapSet(metas, statement.doc_id, EmptyDict)]
      [] statement.sql = "DELETE" ->
           [embeddings |-> DictDel(embs, statement.doc_id),
            metadata |-> MapPop(metas, statement.doc_id)]
      [] statement.sql = "TRUNCATE" ->
           [embeddings |-> <<>>, metadata |-> EmptyDict]

\* try: execute; commit; [return]  except Exception as e: rollback;
\* raise VectorStoreError(..., e) from e.  An exception raised by rollback
\* leaves the handler in place of the VectorStoreError, and CancelledError
\* is not an Exception: the handler does not run.
Mutate(statement, execute, commit, rollback) ==
    LET ex == ExecuteOutcome(statement, execute)
        tried == IF ex = "ok"
                 THEN <<[call |-> "execute", outcome |-> ex],
                        [call |-> "commit", outcome |-> commit]>>
                 ELSE <<[call |-> "execute", outcome |-> ex]>>
        failure == tried[Len(tried)]
    IN IF failure.outcome = "ok"
       THEN [events |-> tried, raised |-> "None", committed |-> TRUE]
       ELSE IF failure.outcome = "CancelledError"
       THEN [events |-> tried, raised |-> "CancelledError", committed |-> FALSE]
       ELSE IF rollback = "ok"
       THEN [events |-> Append(tried, [call |-> "rollback", outcome |-> "ok"]),
             raised |-> "VectorStoreError", cause |-> failure.call,
             committed |-> FALSE]
       ELSE [events |-> Append(tried, [call |-> "rollback", outcome |-> rollback]),
             raised |-> rollback, cause |-> "rollback", committed |-> FALSE]

PgMutation(op, statement, execute, commit, rollback, value) ==
    LET done == Mutate(statement, execute, commit, rollback)
        table == IF done.committed THEN Applied(embeddings, metadata, statement)
                 ELSE [embeddings |-> embeddings, metadata |-> metadata]
    IN /\ last.op = "idle"
       /\ embeddings' = table.embeddings
       /\ metadata' = table.metadata
       /\ last' = [op |-> op, statement |-> statement,
                   ret |-> IF done.raised = "None" THEN [value |-> value] @@ done
                           ELSE done,
                   pre_embeddings |-> embeddings, pre_metadata |-> metadata]
       /\ UNCHANGED tasks

pg_add_embedding(document_id, embedding, md, execute, commit, rollback) ==
    PgMutation("PgVectorStore.add_embedding", [sql |-> "INSERT", doc_id |-> document_id, embedding |-> embedding, metadata |-> MetaJson(md)], execute, commit, rollback, None)

\* deleted = getattr(cursor_result, "rowcount", 0) > 0
pg_delete_embedding(document_id, execute, commit, rollback) ==
    PgMutation("PgVectorStore.delete_embedding", [sql |-> "DELETE", doc_id |-> document_id], execute, commit, rollback, DictHas(embeddings, document_id))

pg_clear(execute, commit, rollback) ==
    PgMutation("PgVectorStore.clear", [sql |-> "TRUNCATE"], execute, commit, rollback, None)

PgAddEmbeddingCall ==
    \E id \in DocIds, e \in BatchVectors, md \in Optional(BatchMetaDicts), x \in SessionOutcomes, c \in SessionOutcomes, r \in SessionOutcomes :
        pg_add_embedding(id, e, md, x, c, r)

PgDeleteEmbeddingCall ==
    \E id \in DocIds, x \in SessionOutcomes, c \in SessionOutcomes, r \in SessionOutcomes :
        pg_delete_embedding(id, x, c, r)

PgClearCall ==
    \E x \in SessionOutcomes, c \in SessionOutcomes, r \in SessionOutcomes :
        pg_clear(x, c, r)

NextPg ==
    \/ PgAddEmbeddingCall
    \/ PgDeleteEmbeddingCall
    \/ PgClearCall
    \/ Return

SpecPg == Init /\ [][NextPg]_vars

---------------------------------------------------------------------------
(* Properties of PgVectorStore, checked under SpecPg *)

PgMutationReturned ==
    last.op \in {"PgVectorStore.add_embedding", "PgVectorStore.delete_embedding", "PgVectorStore.clear"}

\* The calls made on the session, in order.
SessionCalls(events) == [n \in 1..Len(events) |-> events[n].call]

\* C27: every mutating operation of PgVectorStore ends in one of two ways:
\* the statement was executed, the session was committed and the call
\* returned normally; or the session was rolled back and a VectorStoreError
\* whose cause is the exception of the failed call was raised.  No call
\* returns normally without a commit.
C27_CommitOrRollback ==
    PgMutationReturned =>
        LET ret == last.ret
            n == Len(ret.events)
        IN \/ /\ ret.raised = "None"
              /\ SessionCalls(ret.events) = <<"execute", "commit">>
              /\ \A k \in 1..n : ret.events[k].outcome = "ok"
           \/ /\ ret.raised = "VectorStoreError"
              /\ ret.events[n] = [call |-> "rollback", outcome |-> "ok"]
              /\ ret.events[n - 1].outcome = "Exception"
              /\ ret.cause = ret.events[n - 1].call

====
